---- MODULE Spec2Model ----
(***************************************************************************)
(* Planning Poker: the in-memory store of the server (the "Estimation      *)
(* Authority") as a state machine.  The six Maps of the store are the      *)
(* state; every exported mutating function of the store is one operator    *)
(* from (store, arguments, Date.now()) to (store, thrown error), and one   *)
(* action applies it.  Node runs each of these synchronous functions to    *)
(* completion, so one call is one atomic step and a race between two       *)
(* requests is one of the two orders of their calls.  A call that throws   *)
(* without having written to a Map is a stuttering step; what such a call  *)
(* returns is stated in the claims by applying the operator to the store   *)
(* of every reachable state.  The request handlers of the server are       *)
(* operators around those of the store (SpecRequests runs the store        *)
(* through them), and the statistics of a reveal are a function of the     *)
(* votes of the round and of the deck of the room (SpecStatistics).  The   *)
(* Socket.io part of the server, the sockets subscribed to the events of a *)
(* room and the Map socketSessions, runs beside the requests in            *)
(* SpecSockets.                                                            *)
(***************************************************************************)
EXTENDS Integers, Sequences, FiniteSets, TLC

VARIABLES rooms, participants, sessions, items, rounds, votes, uuids, now,
          deck, votedCards, statistics,
          socketRooms, socketSessions, connections, announced

vars ==
    <<rooms, participants, sessions, items, rounds, votes, uuids, now,
      deck, votedCards, statistics,
      socketRooms, socketSessions, connections, announced>>

\* the Socket.io part: the rooms each connected socket has joined, the Map
\* socketSessions, the count of connections accepted, and the participantLeft
\* and roomClosed events emitted so far
socketVars == <<socketRooms, socketSessions, connections, announced>>

(***************************************************************************)
(* Bounds of the model.                                                    *)
(***************************************************************************)
\* Spec: randomUUID() results handed out plus advances of Date.now(), over a run
MaxEvents == 5
\* SpecEstimation: the same count for the runs of the estimation process
MaxEstimationEvents == 7
\* SpecRequests: the same count as for Spec, for the runs of requests
MaxRequestEvents == 5
\* SpecStatistics: the votes of the round that is revealed
MaxVotes == 4
\* SpecSockets: randomUUID() results handed out, connections accepted and
\* participantLeft and roomClosed events emitted, over a run
MaxSocketEvents == 7

(***************************************************************************)
(* Values.                                                                 *)
(***************************************************************************)
\* null of a "number | null" or "string | null" id/timestamp field; ids and
\* timestamps are positive
Null == 0
\* null of a "string | null" card value
NullCard == "null"

\* an id that no Map holds
UnknownId == 0 - 1

ROOM_NAME_MAX_LENGTH == 200
DISPLAY_NAME_MAX_LENGTH == 100
ITEM_TITLE_MAX_LENGTH == 200
ITEM_DESCRIPTION_MAX_LENGTH == 2000

(***************************************************************************)
(* JavaScript string | null | undefined values.  A string is `lead` blanks,*)
(* `len` copies of the non-blank character `ch`, `trail` blanks.           *)
(***************************************************************************)
Str(lead, ch, len, trail) ==
    [kind |-> "string", lead |-> lead, ch |-> ch, len |-> len, trail |-> trail]

JsNull == [kind |-> "null", lead |-> 0, ch |-> "", len |-> 0, trail |-> 0]

JsUndefined == [kind |-> "undefined", lead |-> 0, ch |-> "", len |-> 0, trail |-> 0]

EmptyStr == Str(0, "", 0, 0)

IsNullish(s) == s.kind \in {"null", "undefined"}

\* String.prototype.trim
Trim(s) == IF s.len = 0 THEN EmptyStr ELSE Str(0, s.ch, s.len, 0)

\* String.prototype.length
Length(s) == s.lead + s.len + s.trail

\* x?.trim() ?? ""
TrimOrEmpty(s) == IF IsNullish(s) THEN EmptyStr ELSE Trim(s)

\* x?.trim() ?? null
TrimOrNull(s) == IF IsNullish(s) THEN JsNull ELSE Trim(s)

\* truthiness of a string | null
Truthy(s) == s.kind = "string" /\ Length(s) > 0

(***************************************************************************)
(* Deck catalog.  "coffee" stands for the one-character cup symbol.        *)
(***************************************************************************)
FIBONACCI == <<"0", "1", "2", "3", "5", "8", "13", "21", "?", "coffee">>

LINEAR == <<"0", "1", "2", "3", "4", "5", "6", "7", "8", "9", "10">>

TSHIRT == <<"XS", "S", "M", "L", "XL">>

DeckTypes == {"FIBONACCI", "LINEAR", "TSHIRT"}

\* DECKS[deckType].deckValues; DECKS[deckType] is undefined for any other key
DECKS(deckType) ==
    CASE deckType = "FIBONACCI" -> FIBONACCI
      [] deckType = "LINEAR" -> LINEAR
      [] deckType = "TSHIRT" -> TSHIRT

\* Array.prototype.includes
Includes(seq, x) == \E i \in 1..Len(seq) : seq[i] = x

(***************************************************************************)
(* Maps.  A Map is a function from the keys it holds; keys are UUIDs, the  *)
(* n-th UUID generated being n, so ascending keys are insertion order.     *)
(***************************************************************************)
EmptyMap == [k \in {} |-> Null]

MapSet(m, k, v) == [x \in DOMAIN m \cup {k} |-> IF x = k THEN v ELSE m[x]]

MapDelete(m, ks) == [x \in DOMAIN m \ ks |-> m[x]]

Has(m, k) == k \in DOMAIN m

\* the store: the six Maps, and the count of UUIDs generated so far
Store ==
    [rooms |-> rooms, participants |-> participants, sessions |-> sessions,
     items |-> items, rounds |-> rounds, votes |-> votes, uuids |-> uuids]

\* the six collections of a store
Collections(S) == <<S.rooms, S.participants, S.sessions, S.items, S.rounds, S.votes>>

\* a function returning normally, leaving the store S
Ok(S) == [S |-> S, err |-> "ok"]

\* throw new Error(msg), the store being S at that point
Throw(S, msg) == [S |-> S, err |-> msg]

(***************************************************************************)
(* createRoom                                                              *)
(***************************************************************************)
\* mutant: createRoom gives the creator of the room the role of a joiner
facilitatorAsParticipant(participantId, roomId, trimmedName, t) ==
    [id |-> participantId, roomId |-> roomId, displayName |-> trimmedName,
     role |-> "PARTICIPANT", joinedAt |-> t, leftAt |-> Null, isActive |-> TRUE]

\* the participant createRoom creates with the room
facilitatorParticipant(participantId, roomId, trimmedName, t) ==
    [id |-> participantId, roomId |-> roomId, displayName |-> trimmedName,
     role |-> "FACILITATOR", joinedAt |-> t, leftAt |-> Null, isActive |-> TRUE]

createRoom(S, name, deckType, t) ==
    LET trimmedName == TrimOrEmpty(name)
        roomId == S.uuids + 1
        participantId == S.uuids + 2
        room == [id |-> roomId, name |-> trimmedName, deckType |-> deckType,
                 deckValues |-> DECKS(deckType), state |-> "OPEN",
                 facilitatorId |-> participantId, createdAt |-> t, closedAt |-> Null]
        participant == facilitatorParticipant(participantId, roomId, trimmedName, t)
        session == [id |-> roomId, roomId |-> roomId, startedAt |-> t,
                    closedAt |-> Null, facilitatorId |-> participantId,
                    facilitatorName |-> trimmedName, totalItems |-> 0,
                    totalParticipants |-> 1]
    IN  IF ~Truthy(trimmedName) THEN Throw(S, "Room name is required")
        ELSE IF Length(trimmedName) > ROOM_NAME_MAX_LENGTH
             THEN Throw(S, "Room name must be at most 200 characters")
        ELSE IF deckType \notin DeckTypes THEN Throw(S, "Unknown deck type")
        ELSE Ok([S EXCEPT !.rooms = MapSet(@, roomId, room),
                          !.participants = MapSet(@, participantId, participant),
                          !.sessions = MapSet(@, roomId, session),
                          !.uuids = @ + 2])

(***************************************************************************)
(* joinRoom, leaveRoom, closeRoom                                          *)
(***************************************************************************)
\* mutant: joinRoom, addItem and castVote without their test of the room's state
roomClosedNever(room) == FALSE

\* room.state === RoomState.CLOSED, the test of joinRoom, addItem and castVote
roomClosed(room) == room.state = "CLOSED"

\* mutant: the operations of the facilitator without their test of the caller
notFacilitatorNever(room, participantId) == FALSE

\* room.facilitatorId !== participantId, the test of closeRoom, addItem,
\* updateItem, removeItem, revealVotes, revote and recordFinalEstimate
notFacilitator(room, participantId) == room.facilitatorId # participantId

\* mutant: leaveRoom without its early return
alreadyLeftNever(participant) == FALSE

\* !participant.isActive, the early return of leaveRoom
alreadyLeft(participant) == ~participant.isActive

\* mutant: closeRoom without its early return
alreadyClosedNever(room) == FALSE

\* room.state === RoomState.CLOSED, the early return of closeRoom
alreadyClosed(room) == room.state = "CLOSED"

\* mutant: closeRoom also clears the facilitator of the room
closedRoomWithoutFacilitator(room, t) ==
    [room EXCEPT !.state = "CLOSED", !.closedAt = t, !.facilitatorId = Null]

\* room.state = RoomState.CLOSED; room.closedAt = now
closedRoom(room, t) == [room EXCEPT !.state = "CLOSED", !.closedAt = t]

joinRoom(S, roomId, displayName, role, t) ==
    LET trimmedName == TrimOrEmpty(displayName)
        participantId == S.uuids + 1
        participant == [id |-> participantId, roomId |-> roomId,
                        displayName |-> trimmedName, role |-> role,
                        joinedAt |-> t, leftAt |-> Null, isActive |-> TRUE]
    IN  IF ~Has(S.rooms, roomId) THEN Throw(S, "Room not found")
        ELSE IF roomClosed(S.rooms[roomId]) THEN Throw(S, "Room is closed")
        ELSE IF ~Truthy(trimmedName) THEN Throw(S, "Display name is required")
        ELSE IF Length(trimmedName) > DISPLAY_NAME_MAX_LENGTH
             THEN Throw(S, "Display name must be at most 100 characters")
        ELSE Ok([S EXCEPT !.participants = MapSet(@, participantId, participant),
                          !.sessions = IF Has(@, roomId)
                                       THEN [@ EXCEPT ![roomId].totalParticipants = @ + 1]
                                       ELSE @,
                          !.uuids = @ + 1])

\* mutant: leaveRoom without its test of the participant's room
otherRoomNever(participant, roomId) == FALSE

\* participant.roomId !== roomId, the test of leaveRoom
otherRoom(participant, roomId) == participant.roomId # roomId

leaveRoom(S, roomId, participantId, t) ==
    IF ~Has(S.participants, participantId) \/ otherRoom(S.participants[participantId], roomId)
    THEN Throw(S, "Participant not found")
    ELSE IF alreadyLeft(S.participants[participantId]) THEN Ok(S)
    ELSE Ok([S EXCEPT !.participants[participantId].isActive = FALSE,
                      !.participants[participantId].leftAt = t])

closeRoom(S, roomId, participantId, t) ==
    IF ~Has(S.rooms, roomId) THEN Throw(S, "Room not found")
    ELSE IF notFacilitator(S.rooms[roomId], participantId)
         THEN Throw(S, "Only the facilitator can close the room")
    ELSE IF alreadyClosed(S.rooms[roomId]) THEN Ok(S)
    ELSE Ok([S EXCEPT !.rooms[roomId] = closedRoom(@, t),
                      !.sessions = IF Has(@, roomId)
                                   THEN [@ EXCEPT ![roomId].closedAt = t]
                                   ELSE @])

(***************************************************************************)
(* addItem, updateItem, removeItem                                         *)
(***************************************************************************)
\* Math.max(...xs) of a non-empty set of numbers
Max(xs) == CHOOSE x \in xs : \A y \in xs : y <= x

\* the ids of the items of a room
RoomItemIds(S, roomId) == {i \in DOMAIN S.items : S.items[i].roomId = roomId}

\* the ids of the votes of a round
RoundVoteIds(S, roundId) == {v \in DOMAIN S.votes : S.votes[v].roundId = roundId}

\* mutant: addItem numbers the new item by the count of the room's items
nextOrderByCount(S, roomId) == Cardinality(RoomItemIds(S, roomId)) + 1

nextOrder(S, roomId) ==
    IF RoomItemIds(S, roomId) = {} THEN 1
    ELSE Max({S.items[i].order : i \in RoomItemIds(S, roomId)}) + 1

\* mutant: addItem creates the round of a new item already revealed
firstRoundRevealed(roundId, itemId, t) ==
    [id |-> roundId, itemId |-> itemId, roundNumber |-> 1, state |-> "REVEALED",
     votesRevealedAt |-> t, createdAt |-> t, finalizedAt |-> Null]

\* the round addItem creates with the item
firstRound(roundId, itemId, t) ==
    [id |-> roundId, itemId |-> itemId, roundNumber |-> 1, state |-> "VOTING",
     votesRevealedAt |-> Null, createdAt |-> t, finalizedAt |-> Null]

addItem(S, roomId, title, description, participantId, t) ==
    LET trimmedTitle == TrimOrEmpty(title)
        desc == TrimOrNull(description)
        itemId == S.uuids + 1
        roundId == S.uuids + 2
        item == [id |-> itemId, roomId |-> roomId, title |-> trimmedTitle,
                 description |-> desc, order |-> nextOrder(S, roomId),
                 finalEstimate |-> NullCard, finalEstimateRecordedAt |-> Null,
                 createdAt |-> t, currentRoundId |-> roundId]
        round == firstRound(roundId, itemId, t)
    IN  IF ~Has(S.rooms, roomId) THEN Throw(S, "Room not found")
        ELSE IF roomClosed(S.rooms[roomId]) THEN Throw(S, "Room is closed")
        ELSE IF notFacilitator(S.rooms[roomId], participantId)
             THEN Throw(S, "Only the facilitator can add items")
        ELSE IF ~Truthy(trimmedTitle) THEN Throw(S, "Title is required")
        ELSE IF Length(trimmedTitle) > ITEM_TITLE_MAX_LENGTH
             THEN Throw(S, "Title must be at most 200 characters")
        ELSE IF Truthy(desc) /\ Length(desc) > ITEM_DESCRIPTION_MAX_LENGTH
             THEN Throw(S, "Description must be at most 2000 characters")
        ELSE Ok([S EXCEPT !.items = MapSet(@, itemId, item),
                          !.rounds = MapSet(@, roundId, round),
                          !.uuids = @ + 2])

\* mutant: updateItem without its test of the votes cast
hasVotesNever(S, itemId) == FALSE

\* the votes-cast test of updateItem
hasVotes(S, itemId) ==
    LET rid == S.items[itemId].currentRoundId
    IN  IF rid # Null /\ Has(S.rounds, rid) THEN RoundVoteIds(S, rid) # {} ELSE FALSE

\* the second half of updateItem: the description, the store being S1
updateDescription(S1, itemId, description) ==
    IF description.kind = "undefined" THEN Ok(S1)
    ELSE LET d == TrimOrNull(description)
         IN  IF Truthy(d) /\ Length(d) > ITEM_DESCRIPTION_MAX_LENGTH
             THEN Throw(S1, "Description must be at most 2000 characters")
             ELSE Ok([S1 EXCEPT !.items[itemId].description = d])

updateItem(S, roomId, itemId, title, description, participantId) ==
    IF ~Has(S.rooms, roomId) THEN Throw(S, "Room not found")
    ELSE IF notFacilitator(S.rooms[roomId], participantId)
         THEN Throw(S, "Only the facilitator can edit items")
    ELSE IF ~Has(S.items, itemId) \/ S.items[itemId].roomId # roomId
         THEN Throw(S, "Item not found")
    ELSE IF hasVotes(S, itemId) THEN Throw(S, "Cannot edit item after voting has started")
    ELSE IF title.kind = "undefined" THEN updateDescription(S, itemId, description)
    ELSE LET tt == TrimOrEmpty(title)
         IN  IF ~Truthy(tt) THEN Throw(S, "Title is required")
             ELSE IF Length(tt) > ITEM_TITLE_MAX_LENGTH
                  THEN Throw(S, "Title must be at most 200 characters")
             ELSE updateDescription([S EXCEPT !.items[itemId].title = tt],
                                    itemId, description)

\* mutant: removeItem deletes the rounds of the item and leaves their votes
votesOfRoundsNone(S, itemRounds) == {}

\* the votes removeItem deletes: v.roundId === r.id for a round r of the item
votesOfRounds(S, itemRounds) == {v \in DOMAIN S.votes : S.votes[v].roundId \in itemRounds}

removeItem(S, roomId, itemId, participantId) ==
    IF ~Has(S.rooms, roomId) THEN Throw(S, "Room not found")
    ELSE IF notFacilitator(S.rooms[roomId], participantId)
         THEN Throw(S, "Only the facilitator can remove items")
    ELSE IF ~Has(S.items, itemId) \/ S.items[itemId].roomId # roomId
         THEN Throw(S, "Item not found")
    ELSE LET itemRounds == {r \in DOMAIN S.rounds : S.rounds[r].itemId = itemId}
             gone == votesOfRounds(S, itemRounds)
         IN  Ok([S EXCEPT !.votes = MapDelete(@, gone),
                          !.rounds = MapDelete(@, itemRounds),
                          !.items = MapDelete(@, {itemId})])

(***************************************************************************)
(* castVote, revealVotes, revote, recordFinalEstimate                      *)
(***************************************************************************)
\* mutant: castVote without its test of the caller's role
isObserverNever(participant) == FALSE

\* participant.role === ParticipantRole.OBSERVER, the test of castVote
isObserver(participant) == participant.role = "OBSERVER"

\* mutant: castVote never finds the participant's earlier vote
existingVoteNone(S, roundId, participantId) == Null

\* [...votes.values()].find(v => v.roundId === round.id && v.participantId === participantId):
\* the first such vote in insertion order, Null when there is none
existingVote(S, roundId, participantId) ==
    LET found == {v \in RoundVoteIds(S, roundId) : S.votes[v].participantId = participantId}
    IN  IF found = {} THEN Null ELSE CHOOSE v \in found : \A w \in found : v <= w

\* mutant: castVote without its test of the round's state
votingClosedNever(round) == FALSE

\* round.state !== RoundState.VOTING, the test of castVote
votingClosed(round) == round.state # "VOTING"

castVote(S, roomId, itemId, participantId, cardValue, t) ==
    IF ~Has(S.rooms, roomId) THEN Throw(S, "Room not found")
    ELSE IF roomClosed(S.rooms[roomId]) THEN Throw(S, "Room is closed")
    ELSE IF \/ ~Has(S.participants, participantId)
            \/ S.participants[participantId].roomId # roomId
            \/ ~S.participants[participantId].isActive
         THEN Throw(S, "Participant not found")
    ELSE IF isObserver(S.participants[participantId])
         THEN Throw(S, "Observers cannot vote")
    ELSE IF ~Has(S.items, itemId) \/ S.items[itemId].roomId # roomId
         THEN Throw(S, "Item not found")
    ELSE IF S.items[itemId].currentRoundId = Null
         THEN Throw(S, "No active round for this item")
    ELSE LET rid == S.items[itemId].currentRoundId
         IN  IF ~Has(S.rounds, rid) \/ S.rounds[rid].itemId # itemId
             THEN Throw(S, "Round not found")
             ELSE IF votingClosed(S.rounds[rid])
                  THEN Throw(S, "Voting is closed for this round")
             ELSE IF ~Includes(S.rooms[roomId].deckValues, cardValue)
                  THEN Throw(S, "Invalid card value")
             ELSE LET existing == existingVote(S, rid, participantId)
                      voteId == S.uuids + 1
                      vote == [id |-> voteId, roundId |-> rid,
                               participantId |-> participantId,
                               cardValue |-> cardValue, votedAt |-> t,
                               isRevealed |-> FALSE]
                  IN  IF existing # Null
                      THEN Ok([S EXCEPT !.votes[existing].cardValue = cardValue,
                                        !.votes[existing].votedAt = t])
                      ELSE Ok([S EXCEPT !.votes = MapSet(@, voteId, vote),
                                        !.uuids = @ + 1])

\* mutant: revealVotes without its test of the round's state
alreadyRevealedNever(round) == FALSE

\* round.state !== RoundState.VOTING, the test of revealVotes
alreadyRevealed(round) == round.state # "VOTING"

\* mutant: the reveal also detaches the vote from its participant
revealAnonymous(vote) == [vote EXCEPT !.isRevealed = TRUE, !.participantId = Null]

\* mutant: revealVotes leaves the votes of the round as they are
revealNothing(vote) == vote

\* v.isRevealed = true
reveal(vote) == [vote EXCEPT !.isRevealed = TRUE]

revealVotes(S, roomId, itemId, participantId, t) ==
    IF ~Has(S.rooms, roomId) THEN Throw(S, "Room not found")
    ELSE IF notFacilitator(S.rooms[roomId], participantId)
         THEN Throw(S, "Only the facilitator can reveal votes")
    ELSE IF ~Has(S.items, itemId) \/ S.items[itemId].roomId # roomId
         THEN Throw(S, "Item not found")
    ELSE IF S.items[itemId].currentRoundId = Null THEN Throw(S, "No active round")
    ELSE LET rid == S.items[itemId].currentRoundId
         IN  IF ~Has(S.rounds, rid) \/ S.rounds[rid].itemId # itemId
             THEN Throw(S, "Round not found")
             ELSE IF alreadyRevealed(S.rounds[rid]) THEN Throw(S, "Votes already revealed")
             ELSE Ok([S EXCEPT !.rounds[rid].state = "REVEALED",
                               !.rounds[rid].votesRevealedAt = t,
                               !.votes = [v \in DOMAIN @ |->
                                            IF @[v].roundId = rid
                                            THEN reveal(@[v])
                                            ELSE @[v]]])

\* mutant: revote without its test of the round's state
cannotRevoteNever(oldRound) == FALSE

\* oldRound.state !== RoundState.REVEALED
cannotRevote(oldRound) == oldRound.state # "REVEALED"

\* mutant: revote numbers the new round as a first round
nextRoundNumberOne(oldRound) == 1

\* oldRound.roundNumber + 1
nextRoundNumber(oldRound) == oldRound.roundNumber + 1

\* mutant: revote leaves the old round the current one
currentRoundKept(old, roundId) == old

\* item.currentRoundId = roundId
currentRound(old, roundId) == roundId

revote(S, roomId, itemId, participantId, t) ==
    IF ~Has(S.rooms, roomId) THEN Throw(S, "Room not found")
    ELSE IF notFacilitator(S.rooms[roomId], participantId)
         THEN Throw(S, "Only the facilitator can re-vote")
    ELSE IF ~Has(S.items, itemId) \/ S.items[itemId].roomId # roomId
         THEN Throw(S, "Item not found")
    ELSE IF S.items[itemId].currentRoundId = Null THEN Throw(S, "No active round")
    ELSE LET old == S.items[itemId].currentRoundId
             roundId == S.uuids + 1
         IN  IF ~Has(S.rounds, old) \/ S.rounds[old].itemId # itemId
             THEN Throw(S, "Round not found")
             ELSE IF cannotRevote(S.rounds[old])
                  THEN Throw(S, "Can only re-vote after reveal")
             ELSE LET newRound == [id |-> roundId, itemId |-> itemId,
                                   roundNumber |-> nextRoundNumber(S.rounds[old]),
                                   state |-> "VOTING", votesRevealedAt |-> Null,
                                   createdAt |-> t, finalizedAt |-> Null]
                  IN  Ok([S EXCEPT !.rounds = MapSet(@, roundId, newRound),
                                   !.items[itemId].currentRoundId =
                                        currentRound(old, roundId),
                                   !.uuids = @ + 1])

\* [...items.values()].filter(i => i.roomId === roomId && i.finalEstimate != null).length
finalizedCount(its, roomId) ==
    Cardinality({i \in DOMAIN its : its[i].roomId = roomId /\ its[i].finalEstimate # NullCard})

\* mutant: recordFinalEstimate without its test of the round's state
notRevealedNever(round) == FALSE

\* round.state !== RoundState.REVEALED, the test of recordFinalEstimate
notRevealed(round) == round.state # "REVEALED"

\* mutant: recordFinalEstimate writes the estimate and leaves the item on its
\* round, the round in its state
finalizeEstimateOnly(S, itemId, rid, cardValue, t) ==
    [S EXCEPT !.items[itemId].finalEstimate = cardValue,
              !.items[itemId].finalEstimateRecordedAt = t]

\* the writes of recordFinalEstimate to the item and to its round
finalize(S, itemId, rid, cardValue, t) ==
    [S EXCEPT !.items[itemId].finalEstimate = cardValue,
              !.items[itemId].finalEstimateRecordedAt = t,
              !.items[itemId].currentRoundId = Null,
              !.rounds[rid].state = "FINALIZED",
              !.rounds[rid].finalizedAt = t]

recordFinalEstimate(S, roomId, itemId, participantId, cardValue, t) ==
    IF ~Has(S.rooms, roomId) THEN Throw(S, "Room not found")
    ELSE IF notFacilitator(S.rooms[roomId], participantId)
         THEN Throw(S, "Only the facilitator can record final estimate")
    ELSE IF ~Has(S.items, itemId) \/ S.items[itemId].roomId # roomId
         THEN Throw(S, "Item not found")
    ELSE IF ~Includes(S.rooms[roomId].deckValues, cardValue)
         THEN Throw(S, "Invalid card value")
    ELSE LET rid == S.items[itemId].currentRoundId
         IN  IF rid = Null \/ ~Has(S.rounds, rid) \/ S.rounds[rid].itemId # itemId
             THEN Throw(S, "Round not found")
             ELSE IF notRevealed(S.rounds[rid])
                  THEN Throw(S, "Must reveal votes before recording final estimate")
             ELSE LET S1 == finalize(S, itemId, rid, cardValue, t)
                  IN  Ok([S1 EXCEPT !.sessions =
                                        IF Has(@, roomId)
                                        THEN [@ EXCEPT ![roomId].totalItems =
                                                finalizedCount(S1.items, roomId)]
                                        ELSE @])

(***************************************************************************)
(* Vote statistics.  A JavaScript number that the statistics compute is a  *)
(* quotient of two integers; it is kept as the reduced fraction num/den.   *)
(* The division of two small integers is the double nearest the quotient,  *)
(* and Math.round of that double is Math.round of the quotient, since the  *)
(* halves between two integers are doubles themselves.                     *)
(***************************************************************************)
\* a "number | null": null
NumNull == [null |-> TRUE, n |-> 0]

\* a "number | null": the number n
Num(n) == [null |-> FALSE, n |-> n]

TSHIRT_TO_NUM == [XS |-> 1, S |-> 2, M |-> 3, L |-> 4, XL |-> 5]

\* the decimal numerals of the cards: Numerals[n + 1] is the numeral of n
Numerals ==
    <<"0", "1", "2", "3", "4", "5", "6", "7", "8", "9", "10", "11", "12", "13",
      "14", "15", "16", "17", "18", "19", "20", "21">>

\* Number.isFinite(Number(value)), for a card or the empty string: Number("")
\* is 0, Number of a numeral is its value, Number of any other card is NaN
IsFiniteNumber(value) == value = "" \/ Includes(Numerals, value)

\* Number(value) where it is finite
Number(value) ==
    IF value = "" THEN 0
    ELSE (CHOOSE i \in 1..Len(Numerals) : Numerals[i] = value) - 1

toNumeric(value, deckValues) ==
    IF IsFiniteNumber(value) THEN Num(Number(value))
    ELSE IF value \in DOMAIN TSHIRT_TO_NUM THEN Num(TSHIRT_TO_NUM[value])
    ELSE NumNull

RECURSIVE GCD(_, _)
GCD(a, b) == IF b = 0 THEN a ELSE GCD(b, a % b)

\* the number n / d, d positive
Quotient(n, d) ==
    LET g == GCD(IF n < 0 THEN 0 - n ELSE n, d)
    IN  [num |-> n \div g, den |-> d \div g]

\* Math.round: the nearest integer, a half going up
MathRound(q) == (2 * q.num + q.den) \div (2 * q.den)

\* Math.abs
MathAbs(n) == IF n < 0 THEN 0 - n ELSE n

\* [...numericValues].sort((a, b) => a - b)
sorted(numericValues) ==
    LET idx == 1..Len(numericValues)
        before(j, i) ==
            \/ numericValues[j] < numericValues[i]
            \/ numericValues[j] = numericValues[i] /\ j < i
        position(i) == Cardinality({j \in idx : before(j, i)}) + 1
    IN  [k \in idx |-> numericValues[CHOOSE i \in idx : position(i) = k]]

\* seq.reduce((a, b) => a + b, 0)
sum(seq) ==
    LET acc[i \in 0..Len(seq)] == IF i = 0 THEN 0 ELSE acc[i - 1] + seq[i]
    IN  acc[Len(seq)]

\* Math.floor((len - 1) / 2), as an index from 1
lowerMiddle(len) == ((len - 1) \div 2) + 1

\* mutant: the median reads the lower middle value twice
upperMiddleAsLower(len) == ((len - 1) \div 2) + 1

\* Math.ceil((len - 1) / 2), as an index from 1
upperMiddle(len) == (len \div 2) + 1

\* mutant: a best value that is not numeric is kept
higherKeepsBest(best, cardValue, deckValues) ==
    LET n == toNumeric(cardValue, deckValues)
        b == toNumeric(best, deckValues)
    IN  IF n.null \/ b.null THEN best
        ELSE IF n.n > b.n THEN cardValue ELSE best

\* the callback of the reduce for highest
higher(best, cardValue, deckValues) ==
    LET n == toNumeric(cardValue, deckValues)
        b == toNumeric(best, deckValues)
    IN  IF n.null THEN best
        ELSE IF b.null THEN cardValue
        ELSE IF n.n > b.n THEN cardValue ELSE best

\* the callback of the reduce for lowest
lower(best, cardValue, deckValues) ==
    LET n == toNumeric(cardValue, deckValues)
        b == toNumeric(best, deckValues)
    IN  IF n.null THEN best
        ELSE IF b.null THEN cardValue
        ELSE IF n.n < b.n THEN cardValue ELSE best

\* numericDeck.reduce(...).v: the value of the deck nearest to rounded, the
\* earlier one when two are as near
nearest(numericDeck, deckValues, rounded) ==
    LET distance(d) == MathAbs(toNumeric(d, deckValues).n - rounded)
        acc[i \in 1..Len(numericDeck)] ==
            IF i = 1 THEN numericDeck[1]
            ELSE IF distance(acc[i - 1]) <= distance(numericDeck[i])
                 THEN acc[i - 1]
                 ELSE numericDeck[i]
    IN  acc[Len(numericDeck)]

\* mutant: the distribution notes a value voted without counting its votes
tallyOnce(dist, cardValue) == MapSet(dist, cardValue, 1)

\* distribution[v.cardValue] = (distribution[v.cardValue] ?? 0) + 1
tally(dist, cardValue) ==
    MapSet(dist, cardValue, (IF Has(dist, cardValue) THEN dist[cardValue] ELSE 0) + 1)

\* computeVoteStatistics; voteList is the list of the cardValues of the votes,
\* the one field of a vote the function reads
computeVoteStatistics(voteList, deckValues) ==
    LET isNumeric(value) == ~toNumeric(value, deckValues).null
        eligible == SelectSeq(voteList, isNumeric)
        numericValues == [i \in 1..Len(eligible) |-> toNumeric(eligible[i], deckValues).n]
        sortedValues == sorted(numericValues)
        len == Len(sortedValues)
        average == IF len > 0 THEN Quotient(sum(sortedValues), len) ELSE Quotient(0, 1)
        median ==
            IF len > 0
            THEN Quotient(sortedValues[lowerMiddle(len)] + sortedValues[upperMiddle(len)], 2)
            ELSE Quotient(0, 1)
        initial == IF Len(voteList) > 0 THEN voteList[1] ELSE ""
        highest[i \in 0..Len(voteList)] ==
            IF i = 0 THEN initial ELSE higher(highest[i - 1], voteList[i], deckValues)
        lowest[i \in 0..Len(voteList)] ==
            IF i = 0 THEN initial ELSE lower(lowest[i - 1], voteList[i], deckValues)
        distribution[i \in 0..Len(voteList)] ==
            IF i = 0 THEN EmptyMap ELSE tally(distribution[i - 1], voteList[i])
        numericDeck == SelectSeq(deckValues, isNumeric)
        suggestedEstimate ==
            IF len > 0
            THEN IF Len(numericDeck) > 0
                 THEN nearest(numericDeck, deckValues, MathRound(average))
                 ELSE ToString(MathRound(average))
            ELSE ""
    IN  [average |-> average, median |-> median,
         highest |-> highest[Len(voteList)], lowest |-> lowest[Len(voteList)],
         suggestedEstimate |-> suggestedEstimate,
         voteDistribution |-> distribution[Len(voteList)]]

(***************************************************************************)
(* Queries.                                                                *)
(***************************************************************************)
\* getItemsByRoom: the items of the room sorted by order; the sort is stable, so
\* items of equal order stay in insertion order, which is the order of their ids
getItemsByRoom(S, roomId) ==
    LET ids == RoomItemIds(S, roomId)
        before(j, i) ==
            \/ S.items[j].order < S.items[i].order
            \/ S.items[j].order = S.items[i].order /\ j < i
        position(i) == Cardinality({j \in ids : before(j, i)}) + 1
    IN  [k \in 1..Cardinality(ids) |-> S.items[CHOOSE i \in ids : position(i) = k]]

\* getRoundById: the set holding the round, empty for undefined
getRoundById(S, roundId) == IF Has(S.rounds, roundId) THEN {S.rounds[roundId]} ELSE {}

\* getVotesByRound, as the set of the votes returned
getVotesByRound(S, roundId) == {S.votes[v] : v \in RoundVoteIds(S, roundId)}

\* getVoteCountForRound
getVoteCountForRound(S, roundId) == Cardinality(RoundVoteIds(S, roundId))

\* the records of a Map whose ids are in ids, in the order of the Map, which is
\* the order of insertion: an id is a UUID taken at insertion, so ascending ids
InsertionOrder(m, ids) ==
    LET order == CHOOSE s \in [1..Cardinality(ids) -> ids] :
                    \A i, j \in 1..Cardinality(ids) : i < j => s[i] < s[j]
    IN  [i \in 1..Cardinality(ids) |-> m[order[i]]]

\* getActiveParticipants: the active participants of the room by joinedAt (the
\* sort is stable, so those of one instant stay in the order of the Map)
getActiveParticipants(S, roomId) ==
    LET ids == {p \in DOMAIN S.participants :
                    S.participants[p].roomId = roomId /\ S.participants[p].isActive}
        list == InsertionOrder(S.participants, ids)
        before(a, b) == a.joinedAt < b.joinedAt \/ (a.joinedAt = b.joinedAt /\ a.id < b.id)
        position(i) == 1 + Cardinality({j \in 1..Len(list) : before(list[j], list[i])})
    IN  [k \in 1..Len(list) |-> list[CHOOSE i \in 1..Len(list) : position(i) = k]]

\* mutant: getVotingParticipantCount counts those who left as well
votersWithInactive(S, roomId) ==
    LET ids == {p \in DOMAIN S.participants : S.participants[p].roomId = roomId}
    IN  SelectSeq(InsertionOrder(S.participants, ids),
                  LAMBDA p : p.role \in {"PARTICIPANT", "FACILITATOR"})

\* getActiveParticipants(roomId).filter(p => p.role === PARTICIPANT || p.role === FACILITATOR)
voters(S, roomId) ==
    SelectSeq(getActiveParticipants(S, roomId),
              LAMBDA p : p.role \in {"PARTICIPANT", "FACILITATOR"})

\* getVotingParticipantCount
getVotingParticipantCount(S, roomId) == Len(voters(S, roomId))

\* what revealVotes returns for the round it has revealed: the votes of the
\* round with the names of their participants, and their statistics
revealVotesResult(S, roomId, roundId) ==
    LET voteList == InsertionOrder(S.votes, RoundVoteIds(S, roundId))
        name(v) == IF Has(S.participants, v.participantId)
                   THEN S.participants[v.participantId].displayName
                   ELSE Str(0, "Unknown", 1, 0)
    IN  [votes |-> [i \in 1..Len(voteList) |->
                        [vote |-> voteList[i], participantName |-> name(voteList[i])]],
         statistics |-> computeVoteStatistics(
                            [i \in 1..Len(voteList) |-> voteList[i].cardValue],
                            S.rooms[roomId].deckValues)]

(***************************************************************************)
(* The arguments the callers pass.                                         *)
(***************************************************************************)
RoomIdInputs == DOMAIN rooms \cup {UnknownId}

ParticipantIdInputs == DOMAIN participants \cup {UnknownId}

ItemIdInputs == DOMAIN items \cup {UnknownId}

\* " R ", a blank name, a name of 201 characters, no name
RoomNameInputs == {Str(1, "R", 1, 1), Str(2, "", 0, 0), Str(0, "R", 201, 0), JsUndefined}

\* a deck of the catalog, and a type the catalog does not hold
DeckTypeInputs == {"FIBONACCI", "TAROT"}

\* "P ", "", a name of 101 characters
DisplayNameInputs == {Str(0, "P", 1, 1), EmptyStr, Str(0, "P", 101, 0)}

\* the role a join request names in its body
RoleInputs == {"PARTICIPANT", "OBSERVER", "FACILITATOR"}

\* mutant: the join handler passes the role of the request as it is
joinRoleAsRequested(role) == role

\* role === "OBSERVER" ? ParticipantRole.OBSERVER : ParticipantRole.PARTICIPANT,
\* the role the join handler passes to joinRoom
joinRole(role) == IF role = "OBSERVER" THEN "OBSERVER" ELSE "PARTICIPANT"

\* "T", " ", a title of 201 characters
AddTitleInputs == {Str(0, "T", 1, 0), Str(1, "", 0, 0), Str(0, "T", 201, 0)}

\* null, a description of 2001 characters
AddDescriptionInputs == {JsNull, Str(0, "D", 2001, 0)}

\* no title, " U ", "", a title of 201 characters
UpdateTitleInputs == {JsUndefined, Str(1, "U", 1, 1), EmptyStr, Str(0, "U", 201, 0)}

\* no description, null, a description of 2001 characters
UpdateDescriptionInputs == {JsUndefined, JsNull, Str(0, "D", 2001, 0)}

\* two cards of the Fibonacci deck, and one it does not hold
CardInputs == {"3", "5", "M"}

\* a caller of a request: a participant, with the room it belongs to
Callers == {<<participants[p].roomId, p>> : p \in DOMAIN participants}

\* the item a caller names: one of the room's, or one that does not exist
ItemsOf(roomId) == RoomItemIds(Store, roomId) \cup {UnknownId}

\* Date.now() at a call in the present state: this millisecond or a later one
Times == {now, now + 1}

(***************************************************************************)
(* The request handlers of the server.  A handler checks the body of the   *)
(* request, calls one function of the store and, when the call returns,    *)
(* emits the room event and answers; when the call throws, its catch block *)
(* answers with a status it derives from the message.  The answer of a     *)
(* handler is the store it leaves, the status, the error message of the    *)
(* body ("ok" for none) and the events emitted to the room.                *)
(***************************************************************************)
\* msg.includes(sub), for the messages the store throws and the words the catch
\* blocks look for (the card value that ends the message "Invalid card value"
\* holds none of these words for the cards of the model)
msgIncludes(msg, sub) ==
    CASE sub = "not found" ->
            msg \in {"Room not found", "Participant not found", "Item not found",
                     "Round not found"}
      [] sub = "closed" -> msg \in {"Room is closed", "Voting is closed for this round"}
      [] sub = "facilitator" ->
            msg \in {"Only the facilitator can close the room",
                     "Only the facilitator can add items",
                     "Only the facilitator can edit items",
                     "Only the facilitator can remove items",
                     "Only the facilitator can reveal votes",
                     "Only the facilitator can re-vote",
                     "Only the facilitator can record final estimate"}

\* the status of the catch block of each handler, named by the function of the
\* store the handler calls
statusOnError(handler, msg) ==
    CASE handler \in {"createRoom", "leaveRoom"} -> 400
      [] handler = "closeRoom" -> IF msgIncludes(msg, "facilitator") THEN 403 ELSE 400
      [] handler \in {"joinRoom", "addItem", "castVote"} ->
            IF msgIncludes(msg, "not found") THEN 404
            ELSE IF msgIncludes(msg, "closed") THEN 403 ELSE 400
      [] handler \in {"updateItem", "removeItem"} ->
            IF msgIncludes(msg, "not found") THEN 404 ELSE 400
      [] handler \in {"revealVotes", "revote", "recordFinalEstimate"} ->
            IF msgIncludes(msg, "not found") THEN 404
            ELSE IF msgIncludes(msg, "facilitator") THEN 403 ELSE 400

\* io.to(roomId).emit(name, ...): the event, with the id of what it is about
Event(name, roomId, subject) == [name |-> name, roomId |-> roomId, subject |-> subject]

\* the answer to a request whose body the handler refuses, before any call
BadRequest(S, msg) == [S |-> S, status |-> 400, error |-> msg, emitted |-> << >>]

\* mutant: the handler emits its event before it calls the store
respondAfterEmit(handler, r, success, events) ==
    [S |-> r.S,
     status |-> IF r.err = "ok" THEN success ELSE statusOnError(handler, r.err),
     error |-> r.err, emitted |-> events]

\* try { call; emit; answer } catch { answer }: r is what the call returned
respond(handler, r, success, events) ==
    IF r.err = "ok"
    THEN [S |-> r.S, status |-> success, error |-> "ok", emitted |-> events]
    ELSE [S |-> r.S, status |-> statusOnError(handler, r.err), error |-> r.err,
          emitted |-> << >>]

\* POST /api/rooms
postRooms(S, name, deckType, t) ==
    IF ~Truthy(name) THEN BadRequest(S, "Room name is required")
    ELSE IF deckType \notin DeckTypes THEN BadRequest(S, "Invalid deck type")
    ELSE respond("createRoom", createRoom(S, name, deckType, t), 201, << >>)

\* POST /api/rooms/:id/join
postJoin(S, roomId, displayName, role, t) ==
    IF ~Truthy(displayName) THEN BadRequest(S, "Display name is required")
    ELSE respond("joinRoom", joinRoom(S, roomId, displayName, joinRole(role), t), 201,
                 <<Event("participantJoined", roomId, S.uuids + 1)>>)

\* POST /api/rooms/:id/leave; given says whether the body holds a participantId
postLeave(S, roomId, participantId, given, t) ==
    IF ~given THEN BadRequest(S, "participantId is required")
    ELSE respond("leaveRoom", leaveRoom(S, roomId, participantId, t), 200,
                 IF Has(S.participants, participantId)
                 THEN <<Event("participantLeft", roomId, participantId)>>
                 ELSE << >>)

\* POST /api/rooms/:id/close
postClose(S, roomId, participantId, given, t) ==
    IF ~given THEN BadRequest(S, "participantId is required")
    ELSE respond("closeRoom", closeRoom(S, roomId, participantId, t), 200,
                 <<Event("roomClosed", roomId, roomId)>>)

\* POST /api/rooms/:id/items
postItems(S, roomId, title, description, participantId, given, t) ==
    IF ~Truthy(title) THEN BadRequest(S, "Title is required")
    ELSE IF ~given THEN BadRequest(S, "participantId is required")
    ELSE respond("addItem",
                 addItem(S, roomId, title,
                         IF IsNullish(description) THEN JsNull ELSE description,
                         participantId, t),
                 201, <<Event("itemAdded", roomId, S.uuids + 1)>>)

\* PATCH /api/rooms/:id/items/:itemId
patchItem(S, roomId, itemId, title, description, participantId, given) ==
    IF ~given THEN BadRequest(S, "participantId is required")
    ELSE respond("updateItem",
                 updateItem(S, roomId, itemId, title, description, participantId),
                 200, <<Event("itemUpdated", roomId, itemId)>>)

\* DELETE /api/rooms/:id/items/:itemId
deleteItem(S, roomId, itemId, participantId, given) ==
    IF ~given THEN BadRequest(S, "participantId is required (query or body)")
    ELSE respond("removeItem", removeItem(S, roomId, itemId, participantId), 200,
                 <<Event("itemRemoved", roomId, itemId)>>)

\* io.to(roomId).emit("voteCount", { itemId, votedCount, totalCount }), with the
\* counts read from the store S after the vote
voteCount(S, roomId, itemId) ==
    [name |-> "voteCount", roomId |-> roomId, subject |-> itemId,
     votedCount |-> getVoteCountForRound(S, S.items[itemId].currentRoundId),
     totalCount |-> getVotingParticipantCount(S, roomId)]

\* POST /api/rooms/:id/items/:itemId/vote; the voteCount event is emitted when
\* the item is found in the room with a current round
postVote(S, roomId, itemId, participantId, given, cardValue, t) ==
    IF ~given THEN BadRequest(S, "participantId is required")
    ELSE LET r == castVote(S, roomId, itemId, participantId, cardValue, t)
             found == /\ Has(r.S.rooms, roomId)
                      /\ Has(r.S.items, itemId)
                      /\ r.S.items[itemId].roomId = roomId
         IN  respond("castVote", r, 200,
                     IF found /\ r.S.items[itemId].currentRoundId # Null
                     THEN <<voteCount(r.S, roomId, itemId)>>
                     ELSE << >>)

\* POST /api/rooms/:id/items/:itemId/reveal
postReveal(S, roomId, itemId, participantId, given, t) ==
    IF ~given THEN BadRequest(S, "participantId is required")
    ELSE respond("revealVotes", revealVotes(S, roomId, itemId, participantId, t), 200,
                 <<Event("votesRevealed", roomId, itemId)>>)

\* POST /api/rooms/:id/items/:itemId/revote
postRevote(S, roomId, itemId, participantId, given, t) ==
    IF ~given THEN BadRequest(S, "participantId is required")
    ELSE respond("revote", revote(S, roomId, itemId, participantId, t), 200,
                 <<Event("revoteStarted", roomId, itemId)>>)

\* POST /api/rooms/:id/items/:itemId/finalize
postFinalize(S, roomId, itemId, participantId, given, cardValue, t) ==
    IF ~given THEN BadRequest(S, "participantId is required")
    ELSE respond("recordFinalEstimate",
                 recordFinalEstimate(S, roomId, itemId, participantId, cardValue, t),
                 200, <<Event("finalEstimateRecorded", roomId, itemId)>>)

(***************************************************************************)
(* The Socket.io part of the server.  A connected socket has joined a set  *)
(* of rooms, whose events it receives (the room of its own id, which every *)
(* socket is in, carries no event and is left out); socketSessions maps a  *)
(* socket id to the { roomId, participantId } of its last admitted         *)
(* joinRoom message.  A payload field that is missing or empty is Null.    *)
(***************************************************************************)
\* the sockets: the rooms joined by each connected socket, and socketSessions
Sockets == [rooms |-> socketRooms, sessions |-> socketSessions]

\* mutant: the joinRoom message admits a participant who has left
admittedInactive(participant, roomId) == participant.roomId = roomId

\* the negation of participant.roomId !== roomId || !participant.isActive
admitted(participant, roomId) == participant.roomId = roomId /\ participant.isActive

\* socket.on("joinRoom", payload)
onJoinRoom(S, K, socketId, roomId, participantId) ==
    IF roomId = Null \/ participantId = Null THEN K
    ELSE IF ~Has(S.rooms, roomId) THEN K
    ELSE IF \/ ~Has(S.participants, participantId)
            \/ ~admitted(S.participants[participantId], roomId)
         THEN K
    ELSE [rooms |-> [K.rooms EXCEPT ![socketId] = @ \cup {roomId}],
          sessions |-> MapSet(K.sessions, socketId,
                              [roomId |-> roomId, participantId |-> participantId])]

\* socket.on("disconnect"): Socket.io has taken the socket out of its rooms
onDisconnect(S, K, socketId, t) ==
    LET gone == [rooms |-> MapDelete(K.rooms, {socketId}),
                 sessions |-> MapDelete(K.sessions, {socketId})]
        session == K.sessions[socketId]
    IN  IF /\ Has(K.sessions, socketId)
           /\ Has(S.participants, session.participantId)
           /\ S.participants[session.participantId].isActive
        THEN [S |-> leaveRoom(S, session.roomId, session.participantId, t).S,
              K |-> gone,
              emitted |-> <<Event("participantLeft", session.roomId,
                                  session.participantId)>>]
        ELSE [S |-> S, K |-> gone, emitted |-> << >>]

\* the events emitted so far, with these: those of the idempotent operations
announce(log, events) ==
    log \o SelectSeq(events, LAMBDA e : e.name \in {"participantLeft", "roomClosed"})

(***************************************************************************)
(* The state machine.                                                      *)
(***************************************************************************)
Init ==
    /\ rooms = EmptyMap
    /\ participants = EmptyMap
    /\ sessions = EmptyMap
    /\ items = EmptyMap
    /\ rounds = EmptyMap
    /\ votes = EmptyMap
    /\ uuids = 0
    /\ now = 1
    /\ deck = FIBONACCI
    /\ votedCards = << >>
    /\ statistics = computeVoteStatistics(votedCards, deck)
    /\ socketRooms = EmptyMap
    /\ socketSessions = EmptyMap
    /\ connections = 0
    /\ announced = << >>

\* one call of a store function, with its effect on the store
Call(r, max) ==
    /\ r.S.uuids + (now - 1) <= max
    /\ rooms' = r.S.rooms
    /\ participants' = r.S.participants
    /\ sessions' = r.S.sessions
    /\ items' = r.S.items
    /\ rounds' = r.S.rounds
    /\ votes' = r.S.votes
    /\ uuids' = r.S.uuids
    /\ UNCHANGED <<now, deck, votedCards, statistics>>
    /\ UNCHANGED socketVars

\* Date.now() advances between two calls
Tick(max) ==
    /\ uuids + now <= max
    /\ now' = now + 1
    /\ UNCHANGED <<rooms, participants, sessions, items, rounds, votes, uuids>>
    /\ UNCHANGED <<deck, votedCards, statistics>>
    /\ UNCHANGED socketVars

CreateRoom(max) ==
    \E name \in RoomNameInputs, deckType \in DeckTypeInputs :
        Call(createRoom(Store, name, deckType, now), max)

JoinRoom(max) ==
    \E roomId \in RoomIdInputs, displayName \in DisplayNameInputs, role \in RoleInputs :
        Call(joinRoom(Store, roomId, displayName, joinRole(role), now), max)

LeaveRoom(max) ==
    \E c \in Callers :
        Call(leaveRoom(Store, c[1], c[2], now), max)

CloseRoom(max) ==
    \E c \in Callers :
        Call(closeRoom(Store, c[1], c[2], now), max)

AddItem(max) ==
    \E c \in Callers, title \in AddTitleInputs, description \in AddDescriptionInputs :
        Call(addItem(Store, c[1], title, description, c[2], now), max)

UpdateItem(max) ==
    \E c \in Callers, title \in UpdateTitleInputs, description \in UpdateDescriptionInputs :
        \E itemId \in ItemsOf(c[1]) :
            Call(updateItem(Store, c[1], itemId, title, description, c[2]), max)

RemoveItem(max) ==
    \E c \in Callers :
        \E itemId \in ItemsOf(c[1]) :
            Call(removeItem(Store, c[1], itemId, c[2]), max)

CastVote(max) ==
    \E c \in Callers, cardValue \in CardInputs :
        \E itemId \in ItemsOf(c[1]) :
            Call(castVote(Store, c[1], itemId, c[2], cardValue, now), max)

RevealVotes(max) ==
    \E c \in Callers :
        \E itemId \in ItemsOf(c[1]) :
            Call(revealVotes(Store, c[1], itemId, c[2], now), max)

Revote(max) ==
    \E c \in Callers :
        \E itemId \in ItemsOf(c[1]) :
            Call(revote(Store, c[1], itemId, c[2], now), max)

RecordFinalEstimate(max) ==
    \E c \in Callers, cardValue \in CardInputs :
        \E itemId \in ItemsOf(c[1]) :
            Call(recordFinalEstimate(Store, c[1], itemId, c[2], cardValue, now), max)

\* every operation of the store
Next ==
    \/ Tick(MaxEvents)
    \/ CreateRoom(MaxEvents)
    \/ JoinRoom(MaxEvents)
    \/ LeaveRoom(MaxEvents)
    \/ CloseRoom(MaxEvents)
    \/ AddItem(MaxEvents)
    \/ UpdateItem(MaxEvents)
    \/ RemoveItem(MaxEvents)
    \/ CastVote(MaxEvents)
    \/ RevealVotes(MaxEvents)
    \/ Revote(MaxEvents)
    \/ RecordFinalEstimate(MaxEvents)

Spec == Init /\ [][Next]_vars

\* the estimation process: rooms, their participants, items, rounds and votes
NextEstimation ==
    \/ Tick(MaxEstimationEvents)
    \/ CreateRoom(MaxEstimationEvents)
    \/ JoinRoom(MaxEstimationEvents)
    \/ AddItem(MaxEstimationEvents)
    \/ RemoveItem(MaxEstimationEvents)
    \/ CastVote(MaxEstimationEvents)
    \/ RevealVotes(MaxEstimationEvents)
    \/ Revote(MaxEstimationEvents)
    \/ RecordFinalEstimate(MaxEstimationEvents)

SpecEstimation == Init /\ [][NextEstimation]_vars

\* the requests: each action is one request through its handler, which leaves
\* the store as the function it calls left it
PostRooms ==
    \E name \in RoomNameInputs, deckType \in DeckTypeInputs :
        Call(postRooms(Store, name, deckType, now), MaxRequestEvents)

PostJoin ==
    \E roomId \in RoomIdInputs, displayName \in DisplayNameInputs, role \in RoleInputs :
        Call(postJoin(Store, roomId, displayName, role, now), MaxRequestEvents)

PostLeave ==
    \E c \in Callers, given \in BOOLEAN :
        Call(postLeave(Store, c[1], c[2], given, now), MaxRequestEvents)

PostClose ==
    \E c \in Callers, given \in BOOLEAN :
        Call(postClose(Store, c[1], c[2], given, now), MaxRequestEvents)

PostItems ==
    \E c \in Callers, title \in AddTitleInputs, description \in AddDescriptionInputs,
       given \in BOOLEAN :
        Call(postItems(Store, c[1], title, description, c[2], given, now),
             MaxRequestEvents)

PatchItem ==
    \E c \in Callers, title \in UpdateTitleInputs,
       description \in UpdateDescriptionInputs, given \in BOOLEAN :
        \E itemId \in ItemsOf(c[1]) :
            Call(patchItem(Store, c[1], itemId, title, description, c[2], given),
                 MaxRequestEvents)

DeleteItem ==
    \E c \in Callers, given \in BOOLEAN :
        \E itemId \in ItemsOf(c[1]) :
            Call(deleteItem(Store, c[1], itemId, c[2], given), MaxRequestEvents)

PostVote ==
    \E c \in Callers, cardValue \in CardInputs, given \in BOOLEAN :
        \E itemId \in ItemsOf(c[1]) :
            Call(postVote(Store, c[1], itemId, c[2], given, cardValue, now),
                 MaxRequestEvents)

PostReveal ==
    \E c \in Callers, given \in BOOLEAN :
        \E itemId \in ItemsOf(c[1]) :
            Call(postReveal(Store, c[1], itemId, c[2], given, now), MaxRequestEvents)

PostRevote ==
    \E c \in Callers, given \in BOOLEAN :
        \E itemId \in ItemsOf(c[1]) :
            Call(postRevote(Store, c[1], itemId, c[2], given, now), MaxRequestEvents)

PostFinalize ==
    \E c \in Callers, cardValue \in CardInputs, given \in BOOLEAN :
        \E itemId \in ItemsOf(c[1]) :
            Call(postFinalize(Store, c[1], itemId, c[2], given, cardValue, now),
                 MaxRequestEvents)

NextRequests ==
    \/ Tick(MaxRequestEvents)
    \/ PostRooms
    \/ PostJoin
    \/ PostLeave
    \/ PostClose
    \/ PostItems
    \/ PatchItem
    \/ DeleteItem
    \/ PostVote
    \/ PostReveal
    \/ PostRevote
    \/ PostFinalize

SpecRequests == Init /\ [][NextRequests]_vars

\* the server with its sockets: one request through its handler, with the
\* events of leave and close it emits
Request(a) ==
    /\ a.S.uuids + connections + Len(announce(announced, a.emitted)) <= MaxSocketEvents
    /\ rooms' = a.S.rooms
    /\ participants' = a.S.participants
    /\ sessions' = a.S.sessions
    /\ items' = a.S.items
    /\ rounds' = a.S.rounds
    /\ votes' = a.S.votes
    /\ uuids' = a.S.uuids
    /\ announced' = announce(announced, a.emitted)
    /\ UNCHANGED <<now, deck, votedCards, statistics>>
    /\ UNCHANGED <<socketRooms, socketSessions, connections>>

RoomsRequest ==
    \E name \in RoomNameInputs, deckType \in DeckTypeInputs :
        Request(postRooms(Store, name, deckType, now))

JoinRequest ==
    \E roomId \in RoomIdInputs, displayName \in DisplayNameInputs, role \in RoleInputs :
        Request(postJoin(Store, roomId, displayName, role, now))

LeaveRequest ==
    \E c \in Callers : Request(postLeave(Store, c[1], c[2], TRUE, now))

CloseRequest ==
    \E c \in Callers : Request(postClose(Store, c[1], c[2], TRUE, now))

ItemsRequest ==
    \E c \in Callers, title \in AddTitleInputs, description \in AddDescriptionInputs :
        Request(postItems(Store, c[1], title, description, c[2], TRUE, now))

VoteRequest ==
    \E c \in Callers, cardValue \in CardInputs :
        \E itemId \in ItemsOf(c[1]) :
            Request(postVote(Store, c[1], itemId, c[2], TRUE, cardValue, now))

\* io.on("connection"): a client connects and gets a socket with a fresh id
Connection ==
    /\ uuids + connections + 1 + Len(announced) <= MaxSocketEvents
    /\ connections' = connections + 1
    /\ socketRooms' = MapSet(socketRooms, connections + 1, {})
    /\ UNCHANGED <<rooms, participants, sessions, items, rounds, votes, uuids, now>>
    /\ UNCHANGED <<deck, votedCards, statistics, socketSessions, announced>>

\* the fields of a joinRoom payload
PayloadRoomIds == RoomIdInputs \cup {Null}

PayloadParticipantIds == ParticipantIdInputs \cup {Null}

\* a connected socket sends a joinRoom message
JoinRoomMessage ==
    \E socketId \in DOMAIN socketRooms, roomId \in PayloadRoomIds,
       participantId \in PayloadParticipantIds :
        LET K == onJoinRoom(Store, Sockets, socketId, roomId, participantId)
        IN  /\ socketRooms' = K.rooms
            /\ socketSessions' = K.sessions
            /\ UNCHANGED <<rooms, participants, sessions, items, rounds, votes, uuids>>
            /\ UNCHANGED <<now, deck, votedCards, statistics, connections, announced>>

\* the connection of a socket drops
Disconnect ==
    \E socketId \in DOMAIN socketRooms :
        LET r == onDisconnect(Store, Sockets, socketId, now)
        IN  /\ uuids + connections + Len(announce(announced, r.emitted))
                    <= MaxSocketEvents
            /\ rooms' = r.S.rooms
            /\ participants' = r.S.participants
            /\ sessions' = r.S.sessions
            /\ items' = r.S.items
            /\ rounds' = r.S.rounds
            /\ votes' = r.S.votes
            /\ uuids' = r.S.uuids
            /\ socketRooms' = r.K.rooms
            /\ socketSessions' = r.K.sessions
            /\ announced' = announce(announced, r.emitted)
            /\ UNCHANGED <<now, deck, votedCards, statistics, connections>>

NextSockets ==
    \/ RoomsRequest
    \/ JoinRequest
    \/ LeaveRequest
    \/ CloseRequest
    \/ ItemsRequest
    \/ VoteRequest
    \/ Connection
    \/ JoinRoomMessage
    \/ Disconnect

SpecSockets == Init /\ [][NextSockets]_vars

\* the statistics of a reveal on their own: a round of a room of any deck of the
\* catalog, its votes in the order they were cast
InitStatistics ==
    /\ rooms = EmptyMap
    /\ participants = EmptyMap
    /\ sessions = EmptyMap
    /\ items = EmptyMap
    /\ rounds = EmptyMap
    /\ votes = EmptyMap
    /\ uuids = 0
    /\ now = 1
    /\ deck \in {DECKS(deckType) : deckType \in DeckTypes}
    /\ votedCards = << >>
    /\ statistics = computeVoteStatistics(votedCards, deck)
    /\ socketRooms = EmptyMap
    /\ socketSessions = EmptyMap
    /\ connections = 0
    /\ announced = << >>

\* the cards voted: the low numbers, the highest of the linear deck, the two
\* cards that are no number and the five sizes, each where the deck holds it
VotedCardInputs ==
    {deck[i] : i \in 1..Len(deck)} \cap
        {"0", "1", "2", "3", "5", "10", "?", "coffee", "XS", "S", "M", "L", "XL"}

\* one more participant has voted, with a card of the deck, and the round is
\* revealed
ComputeVoteStatistics ==
    /\ Len(votedCards) < MaxVotes
    /\ \E cardValue \in VotedCardInputs :
            /\ votedCards' = Append(votedCards, cardValue)
            /\ statistics' = computeVoteStatistics(votedCards', deck)
    /\ UNCHANGED <<rooms, participants, sessions, items, rounds, votes, uuids, now, deck>>
    /\ UNCHANGED socketVars

NextStatistics == ComputeVoteStatistics

SpecStatistics == InitStatistics /\ [][NextStatistics]_vars

(***************************************************************************)
(* The claims.  The error kinds of the specification are the messages the  *)
(* store throws.                                                           *)
(***************************************************************************)
InvalidState ==
    {"Voting is closed for this round", "Votes already revealed",
     "Can only re-vote after reveal",
     "Must reveal votes before recording final estimate",
     "Cannot edit item after voting has started"}

\* the item exists and its current round is in state st
CurrentRoundIs(itemId, st) ==
    /\ Has(items, itemId)
    /\ items[itemId].currentRoundId # Null
    /\ Has(rounds, items[itemId].currentRoundId)
    /\ rounds[items[itemId].currentRoundId].state = st

\* the participants of the room of an item
ParticipantsOfItem(itemId) ==
    {p \in DOMAIN participants : participants[p].roomId = items[itemId].roomId}

\* a call of castVote that gets as far as the test of the round's state
ReachesRoundTest(roomId, itemId, participantId) ==
    /\ roomId = items[itemId].roomId
    /\ Has(rooms, roomId)
    /\ rooms[roomId].state = "OPEN"
    /\ Has(participants, participantId)
    /\ participants[participantId].roomId = roomId
    /\ participants[participantId].isActive
    /\ participants[participantId].role # "OBSERVER"

\* C1 as stated: while the current round of an item is REVEALED, every castVote
\* for the item by a participant of its room fails with InvalidState and leaves
\* the votes as they are.
C1_Original ==
    \A itemId \in DOMAIN items :
        CurrentRoundIs(itemId, "REVEALED") =>
            \A participantId \in ParticipantsOfItem(itemId), cardValue \in CardInputs,
               t \in Times :
                LET r == castVote(Store, items[itemId].roomId, itemId, participantId,
                                  cardValue, t)
                IN  r.err \in InvalidState /\ r.S.votes = votes

\* C1 amended: while the current round of an item is REVEALED, every castVote for
\* the item, whatever its arguments and its time, fails and leaves the store as
\* it is (no vote added, no cardValue or votedAt changed); the failure is
\* InvalidState whenever the call passes the tests that precede the one of the
\* round's state (room open, caller an active participant of the room, not an
\* observer).
C1_VoteAfterRevealFails ==
    \A itemId \in DOMAIN items :
        CurrentRoundIs(itemId, "REVEALED") =>
            \A roomId \in RoomIdInputs, participantId \in ParticipantIdInputs,
               cardValue \in CardInputs, t \in Times :
                LET r == castVote(Store, roomId, itemId, participantId, cardValue, t)
                IN  /\ r.err # "ok"
                    /\ r.S = Store
                    /\ ReachesRoundTest(roomId, itemId, participantId)
                           => r.err = "Voting is closed for this round"

\* a revealed round holding a vote, in an open room where an active voter is left
\* to try again
C1_Witness ==
    \E itemId \in DOMAIN items :
        /\ CurrentRoundIs(itemId, "REVEALED")
        /\ RoundVoteIds(Store, items[itemId].currentRoundId) # {}
        /\ \E p \in DOMAIN participants :
               ReachesRoundTest(items[itemId].roomId, itemId, p)

\* the calls that advance the round of an item: reveal, revote, finalize
RaceCalls == {<<"revealVotes", "3">>, <<"revote", "3">>} \cup
             {<<"recordFinalEstimate", c>> : c \in CardInputs}

\* one such call by the facilitator of the item's room, on the store S
Advance(S, call, itemId, t) ==
    LET roomId == items[itemId].roomId
        facilitatorId == rooms[roomId].facilitatorId
    IN  CASE call[1] = "revealVotes" -> revealVotes(S, roomId, itemId, facilitatorId, t)
          [] call[1] = "revote" -> revote(S, roomId, itemId, facilitatorId, t)
          [] call[1] = "recordFinalEstimate" ->
                recordFinalEstimate(S, roomId, itemId, facilitatorId, call[2], t)

\* two calls that race: each would succeed on the present store; one runs, then
\* the other, and LoserErrors(a, b) holds the failures allowed to b after a
RaceLoserFails(LoserErrors(_, _)) ==
    \A itemId \in DOMAIN items : \A a \in RaceCalls, b \in RaceCalls :
        \A t1 \in Times, t2 \in Times :
            LET first == Advance(Store, a, itemId, t1)
                second == Advance(first.S, b, itemId, t2)
            IN  (first.err = "ok" /\ Advance(Store, b, itemId, t2).err = "ok")
                    => second.err \in LoserErrors(a, b) /\ second.S = first.S

StateMismatch(a, b) == InvalidState

\* after a winning finalize the item has no current round
StateMismatchOrNoRound(a, b) ==
    IF a[1] # "recordFinalEstimate" THEN InvalidState
    ELSE IF b[1] = "recordFinalEstimate" THEN {"Round not found"}
    ELSE {"No active round"}

\* C2 as stated: of two racing calls among reveal, revote and finalize the second
\* fails with InvalidState and changes nothing.
C2_Original == RaceLoserFails(StateMismatch)

\* C2 amended: of two racing calls the first succeeds and the second fails and
\* changes nothing, so the transition is applied once; the failure is
\* InvalidState, except after a winning finalize, which clears currentRoundId:
\* then a second finalize fails with RoundNotFound and a revote with
\* NoActiveRound.
C2_RaceLoserFails == RaceLoserFails(StateMismatchOrNoRound)

\* a round revealed for the second time, so that revote and finalize can race
C2_Witness ==
    \E itemId \in DOMAIN items :
        /\ CurrentRoundIs(itemId, "REVEALED")
        /\ rounds[items[itemId].currentRoundId].roundNumber = 2

\* C3: there is at most one vote per (roundId, participantId); a successful
\* castVote leaves exactly one vote of the caller in the current round, carrying
\* the card just cast, keeps every vote there was and changes no vote of
\* another participant or another round.
C3_OneVotePerParticipant ==
    /\ \A v \in DOMAIN votes, w \in DOMAIN votes :
           (votes[v].roundId = votes[w].roundId
                /\ votes[v].participantId = votes[w].participantId) => v = w
    /\ \A roomId \in RoomIdInputs, itemId \in ItemIdInputs,
          participantId \in ParticipantIdInputs, cardValue \in CardInputs, t \in Times :
           LET r == castVote(Store, roomId, itemId, participantId, cardValue, t)
               rid == items[itemId].currentRoundId
               mine == {v \in RoundVoteIds(r.S, rid) :
                           r.S.votes[v].participantId = participantId}
           IN  r.err = "ok" =>
                   /\ Cardinality(mine) = 1
                   /\ \A v \in mine : r.S.votes[v].cardValue = cardValue
                   /\ DOMAIN votes \subseteq DOMAIN r.S.votes
                   /\ \A v \in DOMAIN votes :
                          (votes[v].participantId # participantId
                               \/ votes[v].roundId # rid) => r.S.votes[v] = votes[v]

\* two participants have voted in the same round, with different cards
C3_Witness ==
    \E v \in DOMAIN votes, w \in DOMAIN votes :
        /\ votes[v].roundId = votes[w].roundId
        /\ votes[v].participantId # votes[w].participantId
        /\ votes[v].cardValue # votes[w].cardValue
        /\ rounds[votes[v].roundId].state = "VOTING"

\* the operations of the store
Operations ==
    {"createRoom", "joinRoom", "leaveRoom", "closeRoom", "addItem", "updateItem",
     "removeItem", "castVote", "revealVotes", "revote", "recordFinalEstimate"}

\* what each call of an operation on the present store returns, over all inputs
Results(op) ==
    CASE op = "createRoom" ->
            {createRoom(Store, name, deckType, t) :
                name \in RoomNameInputs, deckType \in DeckTypeInputs, t \in Times}
      [] op = "joinRoom" ->
            {joinRoom(Store, roomId, displayName, joinRole(role), t) :
                roomId \in RoomIdInputs, displayName \in DisplayNameInputs,
                role \in RoleInputs, t \in Times}
      [] op = "leaveRoom" ->
            {leaveRoom(Store, roomId, participantId, t) :
                roomId \in RoomIdInputs, participantId \in ParticipantIdInputs, t \in Times}
      [] op = "closeRoom" ->
            {closeRoom(Store, roomId, participantId, t) :
                roomId \in RoomIdInputs, participantId \in ParticipantIdInputs, t \in Times}
      [] op = "addItem" ->
            {addItem(Store, roomId, title, description, participantId, t) :
                roomId \in RoomIdInputs, title \in AddTitleInputs,
                description \in AddDescriptionInputs,
                participantId \in ParticipantIdInputs, t \in Times}
      [] op = "updateItem" ->
            {updateItem(Store, roomId, itemId, title, description, participantId) :
                roomId \in RoomIdInputs, itemId \in ItemIdInputs,
                title \in UpdateTitleInputs, description \in UpdateDescriptionInputs,
                participantId \in ParticipantIdInputs}
      [] op = "removeItem" ->
            {removeItem(Store, roomId, itemId, participantId) :
                roomId \in RoomIdInputs, itemId \in ItemIdInputs,
                participantId \in ParticipantIdInputs}
      [] op = "castVote" ->
            {castVote(Store, roomId, itemId, participantId, cardValue, t) :
                roomId \in RoomIdInputs, itemId \in ItemIdInputs,
                participantId \in ParticipantIdInputs, cardValue \in CardInputs,
                t \in Times}
      [] op = "revealVotes" ->
            {revealVotes(Store, roomId, itemId, participantId, t) :
                roomId \in RoomIdInputs, itemId \in ItemIdInputs,
                participantId \in ParticipantIdInputs, t \in Times}
      [] op = "revote" ->
            {revote(Store, roomId, itemId, participantId, t) :
                roomId \in RoomIdInputs, itemId \in ItemIdInputs,
                participantId \in ParticipantIdInputs, t \in Times}
      [] op = "recordFinalEstimate" ->
            {recordFinalEstimate(Store, roomId, itemId, participantId, cardValue, t) :
                roomId \in RoomIdInputs, itemId \in ItemIdInputs,
                participantId \in ParticipantIdInputs, cardValue \in CardInputs,
                t \in Times}

\* C4: whatever the operation and its inputs, a round that was there changes
\* state only from VOTING to REVEALED, by revealVotes, or from REVEALED to
\* FINALIZED, by recordFinalEstimate (so a FINALIZED round keeps its state and no
\* round returns to VOTING), and a round that was not there is in state VOTING,
\* created by addItem with roundNumber 1 or by revote.
C4_RoundStateMachine ==
    \A op \in Operations : \A r \in Results(op) : \A rid \in DOMAIN r.S.rounds :
        IF Has(rounds, rid)
        THEN LET before == rounds[rid].state
                 after == r.S.rounds[rid].state
             IN  before # after =>
                     \/ before = "VOTING" /\ after = "REVEALED" /\ op = "revealVotes"
                     \/ /\ before = "REVEALED" /\ after = "FINALIZED"
                        /\ op = "recordFinalEstimate"
        ELSE /\ r.S.rounds[rid].state = "VOTING"
             /\ \/ op = "addItem" /\ r.S.rounds[rid].roundNumber = 1
                \/ op = "revote"

\* a round opened by revote has gone through the whole machine
C4_Witness ==
    \E rid \in DOMAIN rounds :
        rounds[rid].state = "FINALIZED" /\ rounds[rid].roundNumber = 2

\* the latest round of an item
LatestRound(itemId) ==
    CHOOSE rid \in DOMAIN rounds :
        /\ rounds[rid].itemId = itemId
        /\ \A other \in DOMAIN rounds :
               rounds[other].itemId = itemId
                   => rounds[other].roundNumber <= rounds[rid].roundNumber

\* revealVotes by the facilitator of the item's room
FacilitatorReveals(itemId, t) ==
    revealVotes(Store, items[itemId].roomId, itemId,
                rooms[items[itemId].roomId].facilitatorId, t)

\* C5 as stated: revealVotes by the facilitator on an item whose latest round is
\* REVEALED or FINALIZED fails with InvalidState and changes no state.
C5_Original ==
    \A itemId \in DOMAIN items : \A t \in Times :
        rounds[LatestRound(itemId)].state \in {"REVEALED", "FINALIZED"} =>
            /\ FacilitatorReveals(itemId, t).err \in InvalidState
            /\ FacilitatorReveals(itemId, t).S = Store

\* C5 amended: revealVotes by the facilitator on an item whose latest round is
\* REVEALED fails with InvalidState; on an item whose latest round is FINALIZED
\* the item has no current round and the call fails with NoActiveRound; in both
\* cases no state changes.
C5_RevealNotRepeatable ==
    \A itemId \in DOMAIN items : \A t \in Times :
        LET state == rounds[LatestRound(itemId)].state
            r == FacilitatorReveals(itemId, t)
        IN  /\ state = "REVEALED" => r.err = "Votes already revealed" /\ r.S = Store
            /\ state = "FINALIZED" => r.err = "No active round" /\ r.S = Store

\* an item has been revealed and finalized while another is revealed
C5_Witness ==
    \E itemId \in DOMAIN items :
        /\ rounds[LatestRound(itemId)].state = "FINALIZED"
        /\ items[itemId].currentRoundId = Null
        /\ \E rid \in DOMAIN rounds : rounds[rid].state = "REVEALED"

\* C6: every stored vote has isRevealed = false if its round is VOTING and
\* isRevealed = true if its round is REVEALED or FINALIZED, and no operation,
\* whatever its inputs, takes isRevealed of a vote from true back to false.
C6_IsRevealedFollowsRound ==
    /\ \A v \in DOMAIN votes :
           /\ Has(rounds, votes[v].roundId)
           /\ votes[v].isRevealed <=> rounds[votes[v].roundId].state # "VOTING"
    /\ \A op \in Operations : \A r \in Results(op) :
           \A v \in DOMAIN votes \cap DOMAIN r.S.votes :
               votes[v].isRevealed => r.S.votes[v].isRevealed

\* a vote was cast and its round then revealed
C6_Witness ==
    \E v \in DOMAIN votes :
        votes[v].isRevealed /\ rounds[votes[v].roundId].state = "REVEALED"

\* C7: a successful revote finds the current round of the item REVEALED, creates
\* exactly one round, with the previous roundNumber + 1, state VOTING and no
\* vote, makes it the current round of the item, and leaves every other round
\* and every vote as it was: getRoundById and getVotesByRound return the
\* previous round and its votes under the original roundId.
C7_RevoteOpensFreshRound ==
    \A roomId \in RoomIdInputs, itemId \in ItemIdInputs,
       participantId \in ParticipantIdInputs, t \in Times :
        LET r == revote(Store, roomId, itemId, participantId, t)
            old == items[itemId].currentRoundId
            new == r.S.items[itemId].currentRoundId
        IN  r.err = "ok" =>
                /\ CurrentRoundIs(itemId, "REVEALED")
                /\ DOMAIN r.S.rounds \ DOMAIN rounds = {new}
                /\ r.S.rounds[new].itemId = itemId
                /\ r.S.rounds[new].roundNumber = rounds[old].roundNumber + 1
                /\ r.S.rounds[new].state = "VOTING"
                /\ getVoteCountForRound(r.S, new) = 0
                /\ \A rid \in DOMAIN rounds : getRoundById(r.S, rid) = {rounds[rid]}
                /\ getVotesByRound(r.S, old) = getVotesByRound(Store, old)
                /\ r.S.votes = votes

\* a second round, opened by revote, is revealed in its turn and may be re-voted,
\* while the first round still holds its vote
C7_Witness ==
    \E itemId \in DOMAIN items :
        /\ CurrentRoundIs(itemId, "REVEALED")
        /\ rounds[items[itemId].currentRoundId].roundNumber = 2
        /\ \E rid \in DOMAIN rounds :
               /\ rounds[rid].itemId = itemId
               /\ rounds[rid].roundNumber = 1
               /\ getVoteCountForRound(Store, rid) = 1

\* C8 as stated: recordFinalEstimate by a participant of the room on an item
\* whose current round is VOTING fails with InvalidState, and finalEstimate,
\* currentRoundId, the round's state and totalItems are unchanged.
C8_Original ==
    \A itemId \in DOMAIN items :
        CurrentRoundIs(itemId, "VOTING") =>
            \A participantId \in ParticipantsOfItem(itemId), cardValue \in CardInputs,
               t \in Times :
                LET roomId == items[itemId].roomId
                    rid == items[itemId].currentRoundId
                    r == recordFinalEstimate(Store, roomId, itemId, participantId,
                                             cardValue, t)
                IN  /\ r.err \in InvalidState
                    /\ r.S.items[itemId].finalEstimate = items[itemId].finalEstimate
                    /\ r.S.items[itemId].currentRoundId = rid
                    /\ r.S.rounds[rid].state = "VOTING"
                    /\ r.S.sessions[roomId].totalItems = sessions[roomId].totalItems

\* C8 amended: recordFinalEstimate on an item whose current round is VOTING
\* fails, whatever its arguments, and leaves the store as it is (finalEstimate,
\* currentRoundId, the round's state and totalItems included); the failure is
\* InvalidState when the caller is the facilitator of the item's room and the
\* card is one of the room's deck, and otherwise that of the earlier test the
\* call does not pass (Forbidden for another caller, InvalidInput for a card not
\* in the deck).
C8_FinalizeNeedsReveal ==
    \A itemId \in DOMAIN items :
        CurrentRoundIs(itemId, "VOTING") =>
            \A roomId \in RoomIdInputs, participantId \in ParticipantIdInputs,
               cardValue \in CardInputs, t \in Times :
                LET r == recordFinalEstimate(Store, roomId, itemId, participantId,
                                             cardValue, t)
                    own == roomId = items[itemId].roomId
                    facilitator == own /\ participantId = rooms[roomId].facilitatorId
                    inDeck == own /\ Includes(rooms[roomId].deckValues, cardValue)
                IN  /\ r.err # "ok"
                    /\ r.S = Store
                    /\ (facilitator /\ inDeck)
                           => r.err = "Must reveal votes before recording final estimate"
                    /\ (own /\ ~facilitator)
                           => r.err = "Only the facilitator can record final estimate"
                    /\ (facilitator /\ ~inDeck) => r.err = "Invalid card value"

\* a round re-opened by revote is VOTING
C8_Witness ==
    \E itemId \in DOMAIN items :
        /\ CurrentRoundIs(itemId, "VOTING")
        /\ rounds[items[itemId].currentRoundId].roundNumber = 2

\* C9: when the facilitator removes the item of highest order of a room and then
\* adds an item, the new item gets an order greater than the one removed.
C9_OrdersNeverReused ==
    \A itemId \in DOMAIN items :
        LET roomId == items[itemId].roomId
            facilitatorId == rooms[roomId].facilitatorId
            removed == removeItem(Store, roomId, itemId, facilitatorId)
            added == addItem(removed.S, roomId, Str(0, "T", 1, 0), JsNull,
                             facilitatorId, now)
        IN  (/\ items[itemId].order + 1 = nextOrder(Store, roomId)
             /\ removed.err = "ok"
             /\ added.err = "ok")
                => added.S.items[removed.S.uuids + 1].order > items[itemId].order

\* C10: a call that fails, of whatever operation and with whatever inputs,
\* leaves the six collections exactly as they were.
C10_NoPartialEffects ==
    \A op \in Operations : \A r \in Results(op) :
        r.err # "ok" => Collections(r.S) = Collections(Store)

\* C11: the totalItems of the session of a room is the number of items now in
\* the room that have a final estimate.
C11_TotalItemsMirrors ==
    \A roomId \in DOMAIN sessions :
        sessions[roomId].totalItems = finalizedCount(items, roomId)

\* C12: every round belongs to a stored item and every vote to a stored round;
\* after a successful removeItem the item is gone, no round of the item is
\* stored and no vote of any of those rounds is stored, and what belongs to
\* other items is as it was.
C12_RemoveCascades ==
    /\ \A rid \in DOMAIN rounds : Has(items, rounds[rid].itemId)
    /\ \A v \in DOMAIN votes : Has(rounds, votes[v].roundId)
    /\ \A roomId \in RoomIdInputs, itemId \in ItemIdInputs,
          participantId \in ParticipantIdInputs :
           LET r == removeItem(Store, roomId, itemId, participantId)
               itemRounds == {rid \in DOMAIN rounds : rounds[rid].itemId = itemId}
           IN  r.err = "ok" =>
                   /\ ~Has(r.S.items, itemId)
                   /\ \A rid \in DOMAIN r.S.rounds : r.S.rounds[rid].itemId # itemId
                   /\ \A v \in DOMAIN r.S.votes : r.S.votes[v].roundId \notin itemRounds
                   /\ \A rid \in DOMAIN r.S.rounds : getRoundById(Store, rid) = {r.S.rounds[rid]}
                   /\ DOMAIN r.S.rounds = DOMAIN rounds \ itemRounds
                   /\ \A rid \in DOMAIN r.S.rounds :
                          getVotesByRound(r.S, rid) = getVotesByRound(Store, rid)

\* the only item of the only room was removed after a vote or a second round had
\* been added to it: five ids were drawn, the room and its facilitator remain
C12_Witness ==
    /\ uuids = 5
    /\ Cardinality(DOMAIN rooms) = 1
    /\ Cardinality(DOMAIN participants) = 1
    /\ items = EmptyMap
    /\ rounds = EmptyMap
    /\ votes = EmptyMap

\* C13: on a CLOSED room every joinRoom, addItem and castVote, whatever its other
\* arguments, fails with RoomClosed and leaves the store as it is: no
\* participant, item, round or vote is created and totalParticipants is the same.
C13_ClosedRoomRefuses ==
    \A roomId \in DOMAIN rooms :
        rooms[roomId].state = "CLOSED" =>
            /\ \A displayName \in DisplayNameInputs, role \in RoleInputs, t \in Times :
                   LET r == joinRoom(Store, roomId, displayName, role, t)
                   IN  r.err = "Room is closed" /\ r.S = Store
            /\ \A title \in AddTitleInputs, description \in AddDescriptionInputs,
                  participantId \in ParticipantIdInputs, t \in Times :
                   LET r == addItem(Store, roomId, title, description, participantId, t)
                   IN  r.err = "Room is closed" /\ r.S = Store
            /\ \A itemId \in ItemIdInputs, participantId \in ParticipantIdInputs,
                  cardValue \in CardInputs, t \in Times :
                   LET r == castVote(Store, roomId, itemId, participantId, cardValue, t)
                   IN  r.err = "Room is closed" /\ r.S = Store

\* a room was closed while an item of it was open for votes and its facilitator
\* still active
C13_Witness ==
    \E itemId \in DOMAIN items :
        /\ rooms[items[itemId].roomId].state = "CLOSED"
        /\ CurrentRoundIs(itemId, "VOTING")
        /\ participants[rooms[items[itemId].roomId].facilitatorId].isActive

\* C14: closedAt of a room is null exactly while the room is OPEN; no operation
\* removes a room or changes the state or closedAt of a CLOSED room, or closedAt
\* of its session; closeRoom by the facilitator on a CLOSED room returns without
\* error and leaves the store as it is.
C14_ClosedOnce ==
    /\ \A roomId \in DOMAIN rooms :
           rooms[roomId].closedAt = Null <=> rooms[roomId].state = "OPEN"
    /\ \A op \in Operations : \A r \in Results(op) : \A roomId \in DOMAIN rooms :
           /\ Has(r.S.rooms, roomId)
           /\ rooms[roomId].state = "CLOSED" =>
                  /\ r.S.rooms[roomId].state = "CLOSED"
                  /\ r.S.rooms[roomId].closedAt = rooms[roomId].closedAt
                  /\ r.S.sessions[roomId].closedAt = sessions[roomId].closedAt
    /\ \A roomId \in DOMAIN rooms : \A t \in Times :
           LET r == closeRoom(Store, roomId, rooms[roomId].facilitatorId, t)
           IN  rooms[roomId].state = "CLOSED" => r.err = "ok" /\ r.S = Store

\* a room was closed at an earlier time than now
C14_Witness ==
    \E roomId \in DOMAIN rooms :
        /\ rooms[roomId].state = "CLOSED"
        /\ rooms[roomId].closedAt < now
        /\ sessions[roomId].closedAt = rooms[roomId].closedAt

\* C15: leaveRoom of an active participant returns without error and sets
\* isActive = false and leftAt; leaveRoom of a participant who has left returns
\* without error and leaves the store as it is; no operation removes a
\* participant, or changes isActive or leftAt of a participant who has left.
C15_LeaveIdempotent ==
    /\ \A p \in DOMAIN participants : \A t \in Times :
           LET r == leaveRoom(Store, participants[p].roomId, p, t)
           IN  /\ r.err = "ok"
               /\ IF participants[p].isActive
                  THEN r.S = [Store EXCEPT !.participants[p].isActive = FALSE,
                                           !.participants[p].leftAt = t]
                  ELSE r.S = Store
    /\ \A op \in Operations : \A r \in Results(op) : \A p \in DOMAIN participants :
           /\ Has(r.S.participants, p)
           /\ ~participants[p].isActive =>
                  /\ ~r.S.participants[p].isActive
                  /\ r.S.participants[p].leftAt = participants[p].leftAt

\* a participant left at an earlier time than now
C15_Witness ==
    \E p \in DOMAIN participants :
        /\ ~participants[p].isActive
        /\ participants[p].leftAt # Null
        /\ participants[p].leftAt < now

\* the catalog list of a deck
Catalog(deckType) ==
    CASE deckType = "FIBONACCI" ->
             <<"0", "1", "2", "3", "5", "8", "13", "21", "?", "coffee">>
      [] deckType = "LINEAR" -> <<"0", "1", "2", "3", "4", "5", "6", "7", "8", "9", "10">>
      [] deckType = "TSHIRT" -> <<"XS", "S", "M", "L", "XL">>

C17_FacilitatorIdImmutable ==
    /\ \A roomId \in DOMAIN rooms :
           /\ Has(participants, rooms[roomId].facilitatorId)
           /\ participants[rooms[roomId].facilitatorId].roomId = roomId
    /\ \A op \in Operations : \A r \in Results(op) : \A roomId \in DOMAIN rooms :
           r.S.rooms[roomId].facilitatorId = rooms[roomId].facilitatorId

\* the facilitator of a room has left and the room was closed
C17_Witness ==
    \E roomId \in DOMAIN rooms :
        /\ rooms[roomId].state = "CLOSED"
        /\ ~participants[rooms[roomId].facilitatorId].isActive

\* C18: a participant created by a join request, whatever role the request
\* names, has role PARTICIPANT or OBSERVER; each room has exactly one participant
\* with role FACILITATOR, the one whose id is room.facilitatorId.
C18_OneFacilitator ==
    /\ \A roomId \in DOMAIN rooms :
           {p \in DOMAIN participants :
               participants[p].roomId = roomId /\ participants[p].role = "FACILITATOR"}
               = {rooms[roomId].facilitatorId}
    /\ \A roomId \in RoomIdInputs, displayName \in DisplayNameInputs,
          role \in RoleInputs, t \in Times :
           LET r == joinRoom(Store, roomId, displayName, joinRole(role), t)
           IN  \A p \in DOMAIN r.S.participants \ DOMAIN participants :
                   r.S.participants[p].role \in {"PARTICIPANT", "OBSERVER"}

\* a participant and an observer have joined a room
C18_Witness ==
    \E p \in DOMAIN participants, q \in DOMAIN participants :
        /\ participants[p].roomId = participants[q].roomId
        /\ participants[p].role = "PARTICIPANT"
        /\ participants[q].role = "OBSERVER"

\* the failures of kind Forbidden
Forbidden ==
    {"Only the facilitator can close the room", "Only the facilitator can add items",
     "Only the facilitator can edit items", "Only the facilitator can remove items",
     "Only the facilitator can reveal votes", "Only the facilitator can re-vote",
     "Only the facilitator can record final estimate", "Observers cannot vote"}

\* the operations reserved to the facilitator
FacilitatorOperations ==
    {"closeRoom", "addItem", "updateItem", "removeItem", "revealVotes", "revote",
     "recordFinalEstimate"}

\* what the calls of such an operation on a room by a caller return, over the
\* other inputs
ResultsBy(op, roomId, participantId) ==
    CASE op = "closeRoom" -> {closeRoom(Store, roomId, participantId, t) : t \in Times}
      [] op = "addItem" ->
            {addItem(Store, roomId, title, description, participantId, t) :
                title \in AddTitleInputs, description \in AddDescriptionInputs, t \in Times}
      [] op = "updateItem" ->
            {updateItem(Store, roomId, itemId, title, description, participantId) :
                itemId \in ItemIdInputs, title \in UpdateTitleInputs,
                description \in UpdateDescriptionInputs}
      [] op = "removeItem" ->
            {removeItem(Store, roomId, itemId, participantId) : itemId \in ItemIdInputs}
      [] op = "revealVotes" ->
            {revealVotes(Store, roomId, itemId, participantId, t) :
                itemId \in ItemIdInputs, t \in Times}
      [] op = "revote" ->
            {revote(Store, roomId, itemId, participantId, t) :
                itemId \in ItemIdInputs, t \in Times}
      [] op = "recordFinalEstimate" ->
            {recordFinalEstimate(Store, roomId, itemId, participantId, cardValue, t) :
                itemId \in ItemIdInputs, cardValue \in CardInputs, t \in Times}

\* C19 as stated: on an existing room, each operation reserved to the
\* facilitator, called with a participantId other than the room's facilitatorId,
\* fails with Forbidden and changes nothing.
C19_Original ==
    \A op \in FacilitatorOperations, roomId \in DOMAIN rooms,
       participantId \in ParticipantIdInputs :
        participantId # rooms[roomId].facilitatorId =>
            \A r \in ResultsBy(op, roomId, participantId) :
                r.err \in Forbidden /\ r.S = Store

\* C19 amended: on an existing room, each operation reserved to the facilitator,
\* called with a participantId other than the room's facilitatorId, fails and
\* changes nothing; the failure is Forbidden, except for addItem on a CLOSED
\* room, which fails with RoomClosed.
C19_FacilitatorOnly ==
    \A op \in FacilitatorOperations, roomId \in DOMAIN rooms,
       participantId \in ParticipantIdInputs :
        participantId # rooms[roomId].facilitatorId =>
            \A r \in ResultsBy(op, roomId, participantId) :
                /\ r.S = Store
                /\ IF op = "addItem" /\ rooms[roomId].state = "CLOSED"
                   THEN r.err = "Room is closed"
                   ELSE r.err \in Forbidden

\* a closed room with an item and a participant who is not its facilitator
C19_Witness ==
    \E itemId \in DOMAIN items, p \in DOMAIN participants :
        /\ participants[p].roomId = items[itemId].roomId
        /\ p # rooms[items[itemId].roomId].facilitatorId
        /\ rooms[items[itemId].roomId].state = "CLOSED"

\* every stored vote carries a card of the deck of the room of its item, cast by
\* a participant of that room who is not an observer
VotesAreValid ==
    \A v \in DOMAIN votes :
        LET roomId == items[rounds[votes[v].roundId].itemId].roomId
            voter == votes[v].participantId
        IN  /\ Includes(rooms[roomId].deckValues, votes[v].cardValue)
            /\ Has(participants, voter)
            /\ participants[voter].roomId = roomId
            /\ participants[voter].role # "OBSERVER"

\* the caller is not an active participant of the room
NotMember(roomId, participantId) ==
    \/ ~Has(participants, participantId)
    \/ participants[participantId].roomId # roomId
    \/ ~participants[participantId].isActive

\* C20 as stated: every stored vote is valid, and a castVote on an item of a room
\* fails with Forbidden when the caller is an active observer of the room, with
\* ParticipantNotFound when the caller is inactive, unknown or of another room,
\* and with InvalidInput when an active participant who is not an observer casts
\* a card that is not in the deck of the room.
C20_Original ==
    /\ VotesAreValid
    /\ \A itemId \in DOMAIN items, participantId \in ParticipantIdInputs,
          cardValue \in CardInputs, t \in Times :
           LET roomId == items[itemId].roomId
               r == castVote(Store, roomId, itemId, participantId, cardValue, t)
               member == ~NotMember(roomId, participantId)
               observer == member /\ participants[participantId].role = "OBSERVER"
           IN  /\ observer => r.err = "Observers cannot vote"
               /\ ~member => r.err = "Participant not found"
               /\ (member /\ ~observer /\ ~Includes(rooms[roomId].deckValues, cardValue))
                      => r.err = "Invalid card value"

\* C20 amended: every stored vote is valid and a successful castVote is one by an
\* active participant of the room who is not an observer, with a card of the
\* deck; on an OPEN room castVote fails with ParticipantNotFound when the caller
\* is inactive, unknown or of another room, with Forbidden when the caller is an
\* active observer of the room, and with InvalidInput when an active participant
\* who is not an observer casts a card outside the deck on an item whose current
\* round is VOTING; none of these calls changes the store.
C20_VotesAreValid ==
    /\ VotesAreValid
    /\ \A roomId \in DOMAIN rooms, itemId \in ItemIdInputs,
          participantId \in ParticipantIdInputs, cardValue \in CardInputs, t \in Times :
           LET r == castVote(Store, roomId, itemId, participantId, cardValue, t)
               member == ~NotMember(roomId, participantId)
               observer == member /\ participants[participantId].role = "OBSERVER"
               inDeck == Includes(rooms[roomId].deckValues, cardValue)
               open == rooms[roomId].state = "OPEN"
           IN  /\ r.err = "ok" => member /\ ~observer /\ inDeck
               /\ (open /\ ~member) => r.err = "Participant not found" /\ r.S = Store
               /\ (open /\ observer) => r.err = "Observers cannot vote" /\ r.S = Store
               /\ (open /\ member /\ ~observer /\ ~inDeck /\ Has(items, itemId)
                      /\ items[itemId].roomId = roomId /\ CurrentRoundIs(itemId, "VOTING"))
                      => r.err = "Invalid card value" /\ r.S = Store

\* a participant has voted and then left the room
C20_Witness ==
    \E v \in DOMAIN votes :
        /\ ~participants[votes[v].participantId].isActive
        /\ rounds[votes[v].roundId].state = "VOTING"
        /\ rooms[participants[votes[v].participantId].roomId].state = "OPEN"

\* the fields of a vote other than its isRevealed flag
Ballot(vote) ==
    [roundId |-> vote.roundId, participantId |-> vote.participantId,
     cardValue |-> vote.cardValue, votedAt |-> vote.votedAt]

\* C21: whatever the operation and its inputs, a round that is not in state
\* VOTING gets no new vote and each of its votes that is still stored is left as
\* it is, and a round that leaves VOTING (by revealVotes) keeps exactly its
\* votes, changed in nothing but their isRevealed flag, which is set on each of
\* them.  (removeItem deletes the votes of the item with the item.)
C21_VotesFrozenAfterVoting ==
    \A op \in Operations : \A r \in Results(op) : \A rid \in DOMAIN rounds :
        LET before == RoundVoteIds(Store, rid)
            after == RoundVoteIds(r.S, rid)
        IN  /\ rounds[rid].state # "VOTING" =>
                /\ after \subseteq before
                /\ \A v \in after : r.S.votes[v] = votes[v]
            /\ (/\ rounds[rid].state = "VOTING"
                /\ Has(r.S.rounds, rid)
                /\ r.S.rounds[rid].state # "VOTING") =>
                    /\ op = "revealVotes"
                    /\ after = before
                    /\ \A v \in after :
                        /\ Ballot(r.S.votes[v]) = Ballot(votes[v])
                        /\ r.S.votes[v].isRevealed

\* a round has left VOTING with the votes of two participants, both revealed
C21_Witness ==
    \E v, w \in DOMAIN votes :
        /\ votes[v].roundId = votes[w].roundId
        /\ votes[v].participantId # votes[w].participantId
        /\ rounds[votes[v].roundId].state = "REVEALED"
        /\ votes[v].isRevealed /\ votes[w].isRevealed

\* the calls that estimate an item, on the present store, over all other inputs
EstimationCalls(itemId) ==
    UNION {{castVote(Store, roomId, itemId, participantId, cardValue, t),
            revealVotes(Store, roomId, itemId, participantId, t),
            revote(Store, roomId, itemId, participantId, t),
            recordFinalEstimate(Store, roomId, itemId, participantId, cardValue, t)} :
           roomId \in RoomIdInputs, participantId \in ParticipantIdInputs,
           cardValue \in CardInputs, t \in Times}

\* C22: for an item that has its final estimate (written by nothing but a
\* successful recordFinalEstimate), no operation changes the finalEstimate while
\* the item is stored, and every castVote, revealVotes, revote and
\* recordFinalEstimate naming the item fails and leaves the store as it is.
C22_FinalizationIsTerminal ==
    \A itemId \in DOMAIN items : items[itemId].finalEstimate # NullCard =>
        /\ \A op \in Operations : \A r \in Results(op) :
                Has(r.S.items, itemId) =>
                    r.S.items[itemId].finalEstimate = items[itemId].finalEstimate
        /\ \A r \in EstimationCalls(itemId) : r.err # "ok" /\ r.S = Store

\* an item of an OPEN room has its final estimate, its round is FINALIZED and
\* the facilitator is still there to call again
C22_Witness ==
    \E itemId \in DOMAIN items : \E rid \in DOMAIN rounds :
        /\ items[itemId].finalEstimate # NullCard
        /\ rounds[rid].itemId = itemId /\ rounds[rid].state = "FINALIZED"
        /\ rooms[items[itemId].roomId].state = "OPEN"
        /\ participants[rooms[items[itemId].roomId].facilitatorId].isActive

\* the current round of a stored item has at least one vote
VotingStarted(itemId) ==
    /\ items[itemId].currentRoundId # Null
    /\ \E v \in DOMAIN votes : votes[v].roundId = items[itemId].currentRoundId

\* a title updateItem accepts: none, or one of 1 to 200 characters once trimmed
ValidNewTitle(title) ==
    \/ title.kind = "undefined"
    \/ /\ title.kind = "string"
       /\ Trim(title).len > 0
       /\ Trim(title).len <= ITEM_TITLE_MAX_LENGTH

\* a description updateItem accepts: none, null, or at most 2000 characters once
\* trimmed
ValidNewDescription(description) ==
    \/ description.kind \in {"undefined", "null"}
    \/ Trim(description).len <= ITEM_DESCRIPTION_MAX_LENGTH

\* C23 as stated: on an item of the room, updateItem fails with InvalidState
\* whenever the current round of the item has a vote, whoever calls, and leaves
\* title and description as they are; called by the facilitator it succeeds
\* whenever the current round has no vote.
C23_Original ==
    \A itemId \in DOMAIN items :
        \A participantId \in ParticipantIdInputs, title \in UpdateTitleInputs,
           description \in UpdateDescriptionInputs :
            LET roomId == items[itemId].roomId
                r == updateItem(Store, roomId, itemId, title, description, participantId)
            IN  /\ VotingStarted(itemId) =>
                    /\ r.err \in InvalidState
                    /\ r.S.items[itemId].title = items[itemId].title
                    /\ r.S.items[itemId].description = items[itemId].description
                /\ (/\ ~VotingStarted(itemId)
                    /\ participantId = rooms[roomId].facilitatorId) => r.err = "ok"

\* C23: called by the facilitator of the room on an item of the room, updateItem
\* fails with "Cannot edit item after voting has started" and leaves the store
\* as it is whenever the current round of the item has a vote; it succeeds, and
\* writes the trimmed title and description it was given, when the current round
\* has no vote (or the item has no current round) and the fields given are
\* valid.
C23_EditOnlyBeforeVotes ==
    \A itemId \in DOMAIN items :
        \A title \in UpdateTitleInputs, description \in UpdateDescriptionInputs :
            LET roomId == items[itemId].roomId
                r == updateItem(Store, roomId, itemId, title, description,
                                rooms[roomId].facilitatorId)
            IN  /\ VotingStarted(itemId) =>
                    /\ r.err = "Cannot edit item after voting has started"
                    /\ r.S = Store
                /\ (/\ ~VotingStarted(itemId)
                    /\ ValidNewTitle(title)
                    /\ ValidNewDescription(description)) =>
                        /\ r.err = "ok"
                        /\ r.S.items[itemId].title =
                              IF title.kind = "undefined" THEN items[itemId].title
                              ELSE Trim(title)
                        /\ r.S.items[itemId].description =
                              IF description.kind = "undefined"
                              THEN items[itemId].description
                              ELSE TrimOrNull(description)

\* an item was edited before its first vote and now has a vote in its current
\* round
C23_Witness ==
    \E itemId \in DOMAIN items :
        /\ VotingStarted(itemId)
        /\ items[itemId].title = Str(0, "U", 1, 0)

\* C24: the orders of the items of a room are positive and pairwise distinct;
\* an addItem that succeeds gives the new item the order 1 when the room has no
\* item and the highest order of the room's items plus one otherwise; and
\* getItemsByRoom returns each item of the room once, in strictly ascending
\* order.
C24_OrdersDistinctAscending ==
    \A roomId \in DOMAIN rooms :
        LET ids == {i \in DOMAIN items : items[i].roomId = roomId}
            list == getItemsByRoom(Store, roomId)
        IN  /\ \A i \in ids : items[i].order >= 1
            /\ \A i, j \in ids : i # j => items[i].order # items[j].order
            /\ \A participantId \in ParticipantIdInputs, title \in AddTitleInputs,
                  description \in AddDescriptionInputs, t \in Times :
                    LET r == addItem(Store, roomId, title, description, participantId, t)
                        new == DOMAIN r.S.items \ DOMAIN items
                    IN  r.err = "ok" =>
                            /\ Cardinality(new) = 1
                            /\ \A n \in new :
                                /\ r.S.items[n].roomId = roomId
                                /\ ids = {} => r.S.items[n].order = 1
                                /\ ids # {} =>
                                    \E top \in ids :
                                        /\ \A i \in ids : items[i].order <= items[top].order
                                        /\ r.S.items[n].order = items[top].order + 1
            /\ Len(list) = Cardinality(ids)
            /\ {list[k].id : k \in 1..Len(list)} = ids
            /\ \A k \in 1..(Len(list) - 1) : list[k].order < list[k + 1].order

\* a room lost its first item and holds its second, of order 2, alone
C24_Witness ==
    \E roomId \in DOMAIN rooms :
        LET list == getItemsByRoom(Store, roomId)
        IN  Len(list) = 1 /\ list[1].order = 2

\* the numeric coercion of the specification, on the cards voted: a numeral by
\* its value, a size by its rank from 1 to 5; "?" and the cup have none
CardRank ==
    ("0" :> 0) @@ ("1" :> 1) @@ ("2" :> 2) @@ ("3" :> 3) @@ ("5" :> 5) @@
    ("10" :> 10) @@ ("XS" :> 1) @@ ("S" :> 2) @@ ("M" :> 3) @@ ("L" :> 4) @@
    ("XL" :> 5)

\* the places in the list of the votes that are numeric-eligible
EligibleVotes == {i \in 1..Len(votedCards) : votedCards[i] \in DOMAIN CardRank}

\* the rank of the vote at a place
RankAt(i) == CardRank[votedCards[i]]

\* the k-th smallest rank among the eligible votes
KthRank(k) ==
    CHOOSE x \in {RankAt(i) : i \in EligibleVotes} :
        /\ Cardinality({i \in EligibleVotes : RankAt(i) < x}) < k
        /\ k <= Cardinality({i \in EligibleVotes : RankAt(i) <= x})

\* C25: the average of the statistics is the sum of the ranks of the eligible
\* votes over their count, the median is the middle rank for an odd count and
\* the mean of the two middle ranks for an even count, and both are 0 when no
\* vote is eligible; votes 1,2,3 give 2 and 2, votes S,M,M,L give 3 and 3.
C25_AverageAndMedian ==
    LET count == Cardinality(EligibleVotes)
        total == sum([i \in 1..Len(votedCards) |->
                        IF i \in EligibleVotes THEN RankAt(i) ELSE 0])
        lo == (count + 1) \div 2
        hi == (count \div 2) + 1
    IN  /\ statistics.average.den > 0 /\ statistics.median.den > 0
        /\ count = 0 => statistics.average.num = 0 /\ statistics.median.num = 0
        /\ count > 0 =>
            /\ statistics.average.num * count = total * statistics.average.den
            /\ statistics.median.num * 2 =
                  (KthRank(lo) + KthRank(hi)) * statistics.median.den
        /\ votedCards = <<"1", "2", "3">> =>
            /\ statistics.average = [num |-> 2, den |-> 1]
            /\ statistics.median = [num |-> 2, den |-> 1]
        /\ votedCards = <<"S", "M", "M", "L">> =>
            /\ statistics.average = [num |-> 3, den |-> 1]
            /\ statistics.median = [num |-> 3, den |-> 1]

\* an even number of eligible votes whose two middle ranks differ by an odd
\* number, next to a vote that is not eligible
C25_Witness ==
    /\ Cardinality(EligibleVotes) = 2
    /\ Len(votedCards) = 3
    /\ statistics.median.den = 2

\* the integer nearest to the average of the statistics, a half going up
RoundedAverage ==
    CHOOSE n \in 0..10 :
        /\ 2 * n * statistics.average.den <= 2 * statistics.average.num + statistics.average.den
        /\ 2 * statistics.average.num + statistics.average.den < 2 * (n + 1) * statistics.average.den

\* the places of the deck that hold a numeric-eligible value
EligibleDeck == {i \in 1..Len(deck) : ~toNumeric(deck[i], deck).null}

\* how far the value at a place of the deck is from the rounded average
DeckDistance(i) == MathAbs(toNumeric(deck[i], deck).n - RoundedAverage)

\* C26: for a list of at least one vote, suggestedEstimate is the value of the
\* deck whose rank is nearest to the average rounded to an integer, the first
\* such value of the deck when several are as near (every deck of the catalog
\* holds a numeric-eligible value); it is the empty string only when there is no
\* vote.
C26_SuggestedEstimate ==
    /\ Len(votedCards) > 0 =>
        \E i \in EligibleDeck :
            /\ statistics.suggestedEstimate = deck[i]
            /\ \A j \in EligibleDeck :
                /\ DeckDistance(i) <= DeckDistance(j)
                /\ DeckDistance(i) = DeckDistance(j) => i <= j
    /\ statistics.suggestedEstimate = "" => Len(votedCards) = 0

\* C27: for a list of at least one vote, highest is the card of an eligible vote
\* of the highest rank and lowest the card of an eligible vote of the lowest
\* rank, wherever the votes that are not eligible stand in the list; when no
\* vote is eligible both are the card of the first vote.
C27_HighestAndLowest ==
    Len(votedCards) > 0 =>
        IF EligibleVotes = {}
        THEN /\ statistics.highest = votedCards[1]
             /\ statistics.lowest = votedCards[1]
        ELSE /\ \E i \in EligibleVotes :
                    /\ statistics.highest = votedCards[i]
                    /\ \A j \in EligibleVotes : RankAt(j) <= RankAt(i)
             /\ \E i \in EligibleVotes :
                    /\ statistics.lowest = votedCards[i]
                    /\ \A j \in EligibleVotes : RankAt(i) <= RankAt(j)

\* the first vote is not eligible, two later ones of different ranks are
C27_Witness ==
    /\ Len(votedCards) = 3
    /\ 1 \notin EligibleVotes
    /\ statistics.highest # statistics.lowest
    /\ statistics.highest # votedCards[1]
    /\ statistics.lowest # votedCards[1]

\* what each handler answers on the present store, over all requests; a handler
\* is named by the function of the store it calls
Answers(handler) ==
    CASE handler = "createRoom" ->
            {postRooms(Store, name, deckType, t) :
                name \in RoomNameInputs, deckType \in DeckTypeInputs, t \in Times}
      [] handler = "joinRoom" ->
            {postJoin(Store, roomId, displayName, role, t) :
                roomId \in RoomIdInputs, displayName \in DisplayNameInputs,
                role \in RoleInputs, t \in Times}
      [] handler = "leaveRoom" ->
            {postLeave(Store, roomId, participantId, given, t) :
                roomId \in RoomIdInputs, participantId \in ParticipantIdInputs,
                given \in BOOLEAN, t \in Times}
      [] handler = "closeRoom" ->
            {postClose(Store, roomId, participantId, given, t) :
                roomId \in RoomIdInputs, participantId \in ParticipantIdInputs,
                given \in BOOLEAN, t \in Times}
      [] handler = "addItem" ->
            {postItems(Store, roomId, title, description, participantId, given, t) :
                roomId \in RoomIdInputs, title \in AddTitleInputs,
                description \in AddDescriptionInputs,
                participantId \in ParticipantIdInputs, given \in BOOLEAN, t \in Times}
      [] handler = "updateItem" ->
            {patchItem(Store, roomId, itemId, title, description, participantId, given) :
                roomId \in RoomIdInputs, itemId \in ItemIdInputs,
                title \in UpdateTitleInputs, description \in UpdateDescriptionInputs,
                participantId \in ParticipantIdInputs, given \in BOOLEAN}
      [] handler = "removeItem" ->
            {deleteItem(Store, roomId, itemId, participantId, given) :
                roomId \in RoomIdInputs, itemId \in ItemIdInputs,
                participantId \in ParticipantIdInputs, given \in BOOLEAN}
      [] handler = "castVote" ->
            {postVote(Store, roomId, itemId, participantId, given, cardValue, t) :
                roomId \in RoomIdInputs, itemId \in ItemIdInputs,
                participantId \in ParticipantIdInputs, given \in BOOLEAN,
                cardValue \in CardInputs, t \in Times}
      [] handler = "revealVotes" ->
            {postReveal(Store, roomId, itemId, participantId, given, t) :
                roomId \in RoomIdInputs, itemId \in ItemIdInputs,
                participantId \in ParticipantIdInputs, given \in BOOLEAN, t \in Times}
      [] handler = "revote" ->
            {postRevote(Store, roomId, itemId, participantId, given, t) :
                roomId \in RoomIdInputs, itemId \in ItemIdInputs,
                participantId \in ParticipantIdInputs, given \in BOOLEAN, t \in Times}
      [] handler = "recordFinalEstimate" ->
            {postFinalize(Store, roomId, itemId, participantId, given, cardValue, t) :
                roomId \in RoomIdInputs, itemId \in ItemIdInputs,
                participantId \in ParticipantIdInputs, given \in BOOLEAN,
                cardValue \in CardInputs, t \in Times}

\* the failures of the kinds RoomNotFound, ParticipantNotFound, ItemNotFound and
\* RoundNotFound
MissingEntity ==
    {"Room not found", "Participant not found", "Item not found", "Round not found"}

\* C28: whatever the handler and the request, a failure of the store of a
\* missing-entity kind is answered with status 404.
C28_MissingEntityIs404 ==
    \A handler \in Operations : \A a \in Answers(handler) :
        a.error \in MissingEntity => a.status = 404

\* C29: whatever the handler and the request, a failure of the store of kind
\* Forbidden (a caller who is not the facilitator on close, add item, edit item,
\* remove item, reveal, revote or finalize; an observer who votes) is answered
\* with status 403.
C29_ForbiddenIs403 ==
    \A handler \in Operations : \A a \in Answers(handler) :
        a.error \in Forbidden => a.status = 403

\* what an event tells has been done to the store S
Applied(e, S) ==
    LET item == S.items[e.subject]
    IN  CASE e.name = "participantJoined" ->
                /\ Has(S.participants, e.subject)
                /\ S.participants[e.subject].roomId = e.roomId
                /\ S.participants[e.subject].isActive
          [] e.name = "participantLeft" ->
                /\ Has(S.participants, e.subject)
                /\ S.participants[e.subject].roomId = e.roomId
                /\ ~S.participants[e.subject].isActive
          [] e.name = "roomClosed" ->
                Has(S.rooms, e.roomId) /\ S.rooms[e.roomId].state = "CLOSED"
          [] e.name \in {"itemAdded", "itemUpdated"} ->
                Has(S.items, e.subject) /\ item.roomId = e.roomId
          [] e.name = "itemRemoved" -> ~Has(S.items, e.subject)
          [] e.name = "voteCount" ->
                /\ Has(S.items, e.subject) /\ item.roomId = e.roomId
                /\ getVoteCountForRound(S, item.currentRoundId) >= 1
          [] e.name = "votesRevealed" ->
                /\ Has(S.items, e.subject) /\ item.roomId = e.roomId
                /\ S.rounds[item.currentRoundId].state = "REVEALED"
          [] e.name = "revoteStarted" ->
                /\ Has(S.items, e.subject) /\ item.roomId = e.roomId
                /\ S.rounds[item.currentRoundId].state = "VOTING"
                /\ S.rounds[item.currentRoundId].roundNumber > 1
          [] e.name = "finalEstimateRecorded" ->
                /\ Has(S.items, e.subject) /\ item.roomId = e.roomId
                /\ item.finalEstimate # NullCard

\* C30: whatever the handler and the request, an answer that reports a failure
\* comes with no event emitted; an event is emitted only with what it tells
\* already done in the store the handler leaves; and that store is the one the
\* function of the store left, or the present one when the handler refused the
\* body: the emission writes nothing.
C30_EventsFollowMutations ==
    \A handler \in Operations : \A a \in Answers(handler) :
        /\ a.error # "ok" => a.emitted = << >> /\ a.status >= 400
        /\ a.error = "ok" => a.status \in {200, 201}
        /\ \A k \in 1..Len(a.emitted) : Applied(a.emitted[k], a.S)
        /\ a.S = Store \/ \E r \in Results(handler) : r.S = a.S

\* a participant has left: a request to leave again is answered 200 and emits
\* participantLeft, a request to leave for a participant of no room fails and
\* emits nothing
C30_Witness ==
    \E p \in DOMAIN participants :
        /\ ~participants[p].isActive
        /\ postLeave(Store, participants[p].roomId, p, TRUE, now).emitted # << >>
        /\ postLeave(Store, participants[p].roomId, UnknownId, TRUE, now).status = 400

\* all that a store S holds of a room: the room, its session, its participants,
\* its items, their rounds and the votes of these
RoomView(S, roomId) ==
    LET ps == {p \in DOMAIN S.participants : S.participants[p].roomId = roomId}
        is == {i \in DOMAIN S.items : S.items[i].roomId = roomId}
        rs == {r \in DOMAIN S.rounds : S.rounds[r].itemId \in is}
        vs == {v \in DOMAIN S.votes : S.votes[v].roundId \in rs}
    IN  [room |-> S.rooms[roomId],
         session |-> IF Has(S.sessions, roomId) THEN <<S.sessions[roomId]>> ELSE << >>,
         participants |-> [p \in ps |-> S.participants[p]],
         items |-> [i \in is |-> S.items[i]],
         rounds |-> [r \in rs |-> S.rounds[r]],
         votes |-> [v \in vs |-> S.votes[v]]]

\* the call on the room roomId that returned r has left every other room as it
\* was
OtherRoomsKept(roomId, r) ==
    \/ r.S = Store
    \/ \A other \in DOMAIN rooms \ {roomId} :
            /\ Has(r.S.rooms, other)
            /\ RoomView(r.S, other) = RoomView(Store, other)

\* C32: a call of an operation with a roomId, whatever its other inputs (the
\* ids of items and participants of other rooms among them) and whether it
\* fails or not, leaves every other room as it is: the room, its session, its
\* participants, its items, their rounds and their votes.
C32_RoomsAreIndependent ==
    \A roomId \in RoomIdInputs :
        DOMAIN rooms \ {roomId} # {} =>
            /\ \A displayName \in DisplayNameInputs, role \in RoleInputs, t \in Times :
                    OtherRoomsKept(roomId, joinRoom(Store, roomId, displayName,
                                                    joinRole(role), t))
            /\ \A participantId \in ParticipantIdInputs :
                    /\ \A t \in Times :
                            /\ OtherRoomsKept(roomId,
                                    leaveRoom(Store, roomId, participantId, t))
                            /\ OtherRoomsKept(roomId,
                                    closeRoom(Store, roomId, participantId, t))
                            /\ \A title \in AddTitleInputs,
                                  description \in AddDescriptionInputs :
                                    OtherRoomsKept(roomId,
                                        addItem(Store, roomId, title, description,
                                                participantId, t))
                    /\ \A itemId \in ItemIdInputs :
                            /\ \A title \in UpdateTitleInputs,
                                  description \in UpdateDescriptionInputs :
                                    OtherRoomsKept(roomId,
                                        updateItem(Store, roomId, itemId, title,
                                                   description, participantId))
                            /\ OtherRoomsKept(roomId,
                                    removeItem(Store, roomId, itemId, participantId))
                            /\ \A t \in Times :
                                    /\ OtherRoomsKept(roomId,
                                            revealVotes(Store, roomId, itemId,
                                                        participantId, t))
                                    /\ OtherRoomsKept(roomId,
                                            revote(Store, roomId, itemId, participantId, t))
                                    /\ \A cardValue \in CardInputs :
                                            /\ OtherRoomsKept(roomId,
                                                    castVote(Store, roomId, itemId,
                                                             participantId, cardValue, t))
                                            /\ OtherRoomsKept(roomId,
                                                    recordFinalEstimate(Store, roomId,
                                                        itemId, participantId, cardValue, t))

\* two rooms, each with its facilitator, one with an item that has a vote
C32_Witness ==
    \E a, b \in DOMAIN rooms :
        /\ a # b
        /\ \E p \in DOMAIN participants : participants[p].roomId = b
        /\ \E v \in DOMAIN votes : items[rounds[votes[v].roundId].itemId].roomId = a

\* the rounds of an item
RoundsOf(itemId) == {rid \in DOMAIN rounds : rounds[rid].itemId = itemId}

\* currentRoundId is null exactly when the item has its final estimate; a
\* current round exists, is a round of the item in state VOTING or REVEALED, has
\* the greatest roundNumber of the item's rounds, and no other round of the item
\* is in state VOTING
CurrentRoundInvariant ==
    \A itemId \in DOMAIN items :
        LET rid == items[itemId].currentRoundId
        IN  /\ (rid = Null) <=> (items[itemId].finalEstimate # NullCard)
            /\ rid # Null =>
                    /\ Has(rounds, rid)
                    /\ rounds[rid].itemId = itemId
                    /\ rounds[rid].state \in {"VOTING", "REVEALED"}
                    /\ \A other \in RoundsOf(itemId) \ {rid} :
                            /\ rounds[other].roundNumber < rounds[rid].roundNumber
                            /\ rounds[other].state # "VOTING"
            /\ rid = Null => \A other \in RoundsOf(itemId) : rounds[other].state # "VOTING"

\* C33 as stated: the invariant of currentRoundId holds, and no call of an
\* operation fails with RoundNotFound.
C33_Original ==
    /\ CurrentRoundInvariant
    /\ \A op \in Operations : \A r \in Results(op) : r.err # "Round not found"

\* C33: for every item, currentRoundId is null if and only if finalEstimate is
\* non-null; when non-null it refers to an existing round of that item in state
\* VOTING or REVEALED, which has the greatest roundNumber of the item's rounds
\* and is the only one of them that can be VOTING.  Hence castVote, revealVotes
\* and revote never fail with RoundNotFound; recordFinalEstimate fails with it
\* exactly when the facilitator of the room gives a card of the deck for an
\* item of the room that has no current round, that is, a finalized item.
C33_CurrentRound ==
    /\ CurrentRoundInvariant
    /\ \A roomId \in RoomIdInputs, itemId \in ItemIdInputs,
          participantId \in ParticipantIdInputs, t \in Times :
            /\ revealVotes(Store, roomId, itemId, participantId, t).err # "Round not found"
            /\ revote(Store, roomId, itemId, participantId, t).err # "Round not found"
            /\ \A cardValue \in CardInputs :
                    castVote(Store, roomId, itemId, participantId, cardValue, t).err
                        # "Round not found"
    /\ \A roomId \in RoomIdInputs, itemId \in ItemIdInputs,
          participantId \in ParticipantIdInputs, cardValue \in CardInputs, t \in Times :
            LET r == recordFinalEstimate(Store, roomId, itemId, participantId,
                                         cardValue, t)
            IN  (r.err = "Round not found") <=>
                    /\ Has(rooms, roomId)
                    /\ participantId = rooms[roomId].facilitatorId
                    /\ Has(items, itemId)
                    /\ items[itemId].roomId = roomId
                    /\ Includes(rooms[roomId].deckValues, cardValue)
                    /\ items[itemId].finalEstimate # NullCard

\* an item finalized in its second round, so that it has two rounds and no
\* current one
C33_Witness ==
    \E itemId \in DOMAIN items :
        /\ items[itemId].currentRoundId = Null
        /\ items[itemId].finalEstimate # NullCard
        /\ Cardinality(RoundsOf(itemId)) = 2

\* a vote exists in some round of the item, the rounds replaced by revote
\* included, or the item is finalized
VotesExist(itemId) ==
    \/ \E v \in DOMAIN votes : votes[v].roundId \in RoundsOf(itemId)
    \/ items[itemId].finalEstimate # NullCard

\* C34: once a vote has been cast in any round of an item, or the item has been
\* finalized, every updateItem on the item fails and leaves the item as it is.
C34_NoEditOnceVotesExist ==
    \A itemId \in DOMAIN items :
        VotesExist(itemId) =>
            \A roomId \in RoomIdInputs, participantId \in ParticipantIdInputs,
               title \in UpdateTitleInputs, description \in UpdateDescriptionInputs :
                LET r == updateItem(Store, roomId, itemId, title, description,
                                    participantId)
                IN  /\ r.err # "ok"
                    /\ r.S.items[itemId] = items[itemId]

\* the items of a room, their rounds and the votes of these, in a store S
EstimationOf(S, roomId) ==
    LET is == {i \in DOMAIN S.items : S.items[i].roomId = roomId}
        rs == {r \in DOMAIN S.rounds : S.rounds[r].itemId \in is}
        vs == {v \in DOMAIN S.votes : S.votes[v].roundId \in rs}
    IN  [items |-> [i \in is |-> S.items[i]],
         rounds |-> [r \in rs |-> S.rounds[r]],
         votes |-> [v \in vs |-> S.votes[v]]]

\* C35: once a room is CLOSED no call of an operation, whatever its inputs,
\* changes an item, a round or a vote of that room.
C35_ClosedRoomIsFrozen ==
    \A roomId \in DOMAIN rooms :
        rooms[roomId].state = "CLOSED" =>
            \A op \in Operations : \A r \in Results(op) :
                r.S = Store \/ EstimationOf(r.S, roomId) = EstimationOf(Store, roomId)

\* the sum of the counts of a distribution over the values in keys
RECURSIVE CountSum(_, _)
CountSum(dist, keys) ==
    IF keys = {} THEN 0
    ELSE LET k == CHOOSE k \in keys : TRUE
         IN  dist[k] + CountSum(dist, keys \ {k})

\* C40: revealVotes by the facilitator on an item whose current round is VOTING
\* succeeds, with or without votes, and the round becomes REVEALED; the counts
\* of the distribution it returns sum to the number of votes of the round and
\* its values are exactly the values voted; when the round has no vote, the
\* vote list and the distribution are empty, average and median are 0, and
\* highest, lowest and suggestedEstimate are the empty string.
C40_RevealWithoutVotes ==
    \A itemId \in DOMAIN items :
        CurrentRoundIs(itemId, "VOTING") =>
            \A t \in Times :
                LET roomId == items[itemId].roomId
                    rid == items[itemId].currentRoundId
                    r == FacilitatorReveals(itemId, t)
                    result == revealVotesResult(r.S, roomId, rid)
                    dist == result.statistics.voteDistribution
                    cast == getVotesByRound(Store, rid)
                IN  /\ r.err = "ok"
                    /\ r.S.rounds[rid].state = "REVEALED"
                    /\ Len(result.votes) = Cardinality(cast)
                    /\ DOMAIN dist = {v.cardValue : v \in cast}
                    /\ CountSum(dist, DOMAIN dist) = Cardinality(cast)
                    /\ cast = {} =>
                            /\ result.votes = << >>
                            /\ DOMAIN dist = {}
                            /\ result.statistics.average = Quotient(0, 1)
                            /\ result.statistics.median = Quotient(0, 1)
                            /\ result.statistics.highest = ""
                            /\ result.statistics.lowest = ""
                            /\ result.statistics.suggestedEstimate = ""

\* a round was revealed without a vote: what revealVotes returned for it has no
\* vote and no suggested estimate
C40_Witness ==
    \E rid \in DOMAIN rounds :
        /\ rounds[rid].state = "REVEALED"
        /\ getVoteCountForRound(Store, rid) = 0
        /\ LET result == revealVotesResult(Store, items[rounds[rid].itemId].roomId, rid)
           IN  result.votes = << >> /\ result.statistics.suggestedEstimate = ""

\* C36: in every voteCount event emitted after a castVote that succeeded,
\* votedCount is at most totalCount, also when voters have left the room.
C36_VotedAtMostTotal ==
    \A a \in Answers("castVote") :
        \A k \in 1..Len(a.emitted) :
            a.emitted[k].name = "voteCount"
                => a.emitted[k].votedCount <= a.emitted[k].totalCount

\* the joinRoom message names an existing room and a participant that exists,
\* belongs to that room and is active
Admissible(roomId, participantId) ==
    /\ roomId # Null /\ participantId # Null
    /\ Has(rooms, roomId)
    /\ Has(participants, participantId)
    /\ participants[participantId].roomId = roomId
    /\ participants[participantId].isActive

\* C31: a joinRoom message that names an existing room and a participant that
\* exists, belongs to that room and is active subscribes the socket to the room
\* and records the socket session; any other joinRoom message leaves the
\* subscriptions and socketSessions as they are; and in no step does a socket
\* become subscribed to a room otherwise than with a session recorded for a
\* participant that is active in that room at that moment.
C31_SubscriptionNeedsActiveParticipant ==
    /\ [](\A socketId \in DOMAIN socketRooms, roomId \in PayloadRoomIds,
             participantId \in PayloadParticipantIds :
                LET K == onJoinRoom(Store, Sockets, socketId, roomId, participantId)
                IN  IF Admissible(roomId, participantId)
                    THEN /\ roomId \in K.rooms[socketId]
                         /\ K.sessions[socketId] =
                                [roomId |-> roomId, participantId |-> participantId]
                    ELSE K = Sockets)
    /\ [][\A socketId \in DOMAIN socketRooms' :
             \A roomId \in socketRooms'[socketId] :
                (socketId \notin DOMAIN socketRooms \/ roomId \notin socketRooms[socketId])
                    => /\ Has(socketSessions', socketId)
                       /\ socketSessions'[socketId].roomId = roomId
                       /\ Admissible(roomId, socketSessions'[socketId].participantId)
                       /\ UNCHANGED <<rooms, participants>>
         ]_vars

\* a socket is subscribed to a room and recorded for an active participant of
\* it, while another participant of the room has left
C31_Witness ==
    \E socketId \in DOMAIN socketSessions :
        LET session == socketSessions[socketId]
        IN  /\ session.roomId \in socketRooms[socketId]
            /\ participants[session.participantId].isActive
            /\ \E p \in DOMAIN participants :
                    participants[p].roomId = session.roomId /\ ~participants[p].isActive

\* C37: a leave or close request that succeeds as a no-op (the participant has
\* left already, the room is CLOSED already) emits no event; so, over the
\* requests and the disconnects of a run, no participantLeft event is emitted
\* twice for a participant and no roomClosed event twice for a room.
C37_NoEventForNoOp ==
    /\ \A handler \in {"leaveRoom", "closeRoom"} : \A a \in Answers(handler) :
            (a.error = "ok" /\ a.S = Store) => a.emitted = << >>
    /\ \A i, j \in 1..Len(announced) : i < j => announced[i] # announced[j]

\* the sockets subscribed to a room that are recorded for a participant
SocketsOf(K, roomId, participantId) ==
    {socketId \in DOMAIN K.sessions :
        /\ K.sessions[socketId] = [roomId |-> roomId, participantId |-> participantId]
        /\ roomId \in K.rooms[socketId]}

\* C38: every socket subscribed to a room is recorded for a participant who is
\* active in that room; after a leave request that succeeds the participant has
\* no subscribed socket; and the disconnect of one of two sockets of a
\* participant leaves the participant active.
C38_SubscribedMeansActive ==
    /\ \A socketId \in DOMAIN socketRooms : \A roomId \in socketRooms[socketId] :
            /\ Has(socketSessions, socketId)
            /\ socketSessions[socketId].roomId = roomId
            /\ Admissible(roomId, socketSessions[socketId].participantId)
    /\ \A p \in DOMAIN participants, t \in Times :
            LET roomId == participants[p].roomId
                a == postLeave(Store, roomId, p, TRUE, t)
            IN  a.error = "ok" => SocketsOf(Sockets, roomId, p) = {}
    /\ \A p \in DOMAIN participants :
            LET roomId == participants[p].roomId
            IN  \A socketId \in SocketsOf(Sockets, roomId, p) :
                    (participants[p].isActive /\ SocketsOf(Sockets, roomId, p) # {socketId})
                        => onDisconnect(Store, Sockets, socketId, now).S.participants[p].isActive

\* C39: when the socket recorded for an active participant is disconnected and
\* the client connects a new socket that sends joinRoom with the same roomId
\* and participantId, the new socket is subscribed to the room, and the
\* participant can cast a vote as before the disconnect.
C39_ReconnectResubscribes ==
    \A socketId \in DOMAIN socketSessions :
        LET roomId == socketSessions[socketId].roomId
            p == socketSessions[socketId].participantId
            dropped == onDisconnect(Store, Sockets, socketId, now)
            fresh == connections + 1
            connected == [dropped.K EXCEPT !.rooms = MapSet(@, fresh, {})]
            K == onJoinRoom(dropped.S, connected, fresh, roomId, p)
        IN  participants[p].isActive =>
                /\ roomId \in K.rooms[fresh]
                /\ \A itemId \in DOMAIN items, cardValue \in CardInputs, t \in Times :
                        castVote(Store, roomId, itemId, p, cardValue, t).err = "ok"
                            => castVote(dropped.S, roomId, itemId, p, cardValue, t).err = "ok"

====
